---- MODULE Spec2Model ----
(***************************************************************************)
(* Model of the asynchronous summarization pipeline of the Telegram        *)
(* summary bot: the single-consumer task queue (TaskQueue), the summary    *)
(* service it calls, the two-backend AI service (AIService), and the       *)
(* delivery of the results to Telegram (TaskQueueHandler) with its         *)
(* splitter for long summaries; and, around it, the /summary command with  *)
(* its caches, the Markdown utilities, and the duplicateGuard and          *)
(* rateLimiter middleware.                                                 *)
(***************************************************************************)
EXTENDS Integers, Sequences, FiniteSets, TLC

(***************************************************************************)
(* Bounds                                                                  *)
(***************************************************************************)
MaxJobs == 3

MaxCalls == 2

MaxDeliveries == 2

JobIds == 1..MaxJobs

NoTask == 0

\* one 'taskCompleted' and one 'taskFailed' listener, registered once at start-up
Listeners == 1

\* what the command handler can put in a job: a message text within the
\* 50000-character limit of summarizeMessages, or beyond it
JobInputs == {"fits", "toolong"}

\* how the Azure chat-completion call of the summary service can end: with a
\* complete text, a text cut off mid-stream, an empty text, or an exception
AzureReplies == {"content", "cut", "empty", "throws"}

VARIABLES
  queue,        \* TaskQueue.queue: task ids, oldest first
  processing,   \* TaskQueue.processing
  currentTask,  \* TaskQueue.currentTask
  taskStatus,   \* keys of the TaskQueue.taskStatus map
  taskResults,  \* TaskQueue.taskResults: id -> "none" | "success" | "failure"
  status,       \* task.status of every task object, "none" before it exists
  timers,       \* pending 10-minute eviction timers per task id
  nextId,       \* the next id generateTaskId hands out
  jobInput,     \* task.data of every task
  loopPc,       \* position of the drain loop that holds the task
  outcome,      \* how summarizeMessages settled for the task
  attempts,     \* backend calls made for the task, in order
  events,       \* outcome events emitted, in order
  handled,      \* listener invocations per task id
  enqueued,     \* ids in the order of the addSummaryTask calls
  azureInit,    \* AzureOpenAIService.isInitialized
  aiInit,       \* AIService.isInitialized
  primaryClient,  \* AIService.primaryClient is set (not null)
  fallbackClient, \* AIService.fallbackClient is set (not null)
  gpc,          \* position of the AIService call in progress
  gCaller,      \* who made it: "direct" or "summarize"
  gCallNo,      \* AIService calls made so far
  gLog,         \* attempts on the two models made by this call, in order
  gPrimaryError,  \* primaryError caught by generateContentWithFallback
  gResult,      \* what generateContentWithFallback returned or threw
  sResult,      \* what summarizeMessages returned or threw
  restricted,   \* chat -> remaining TTL of its chat_send_restricted cache entry, 0 if none
  delivery,     \* slot -> the handleTaskCompleted / handleTaskFailed call running in it
  dCount,       \* outcome events handed to the handler so far
  document,     \* the text last given to the splitter, with its limit
  segments,     \* what splitTextIntoSegments returned for it
  messages,     \* the messages sendSegmentedSummary makes of it, in order
  markdown,     \* the last call of a Markdown utility: its input and its results
  store,        \* messageStore: the authors of the chat's messages, oldest first
  statsCache,   \* cacheService.statsCache entry of the chat, NoStats if none
  summaryCache, \* keys of cacheService.summaryCache
  cooldown,     \* users whose api_limit entry is younger than the cooldown
  command,      \* the /summary handler that is between two of its awaits
  answer,       \* how the last /summary that was answered was answered
  requests,     \* /summary commands received so far
  jobData,      \* task.data the command gave to addSummaryTask, per task id
  anchors,      \* task id -> state of its task_message_<id> cache entry
  flushes,      \* calls of cacheService.clearAllCache so far
  processedUpdates, \* duplicateGuard: the recorded update ids, in insertion order
  freshId,      \* the update id Telegram gives to the next new update
  passes,       \* how often duplicateGuard passed each followed update id on
  drops,        \* how often the cleanup dropped the record of each followed id
  userRequests, \* rateLimiter: the entry of the user, if any
  now,          \* Date.now(), in milliseconds since the start
  clockSteps,   \* advances of the clock so far
  passedAt,     \* the times at which rateLimiter passed an update of the user on
  refused       \* updates of the user answered with the too-frequent notice

qvars == <<queue, processing, currentTask, taskStatus, taskResults, status,
           timers, nextId, jobInput, loopPc, outcome, attempts, events,
           handled, enqueued, azureInit>>

avars == <<aiInit, primaryClient, fallbackClient, gpc, gCaller, gCallNo, gLog,
           gPrimaryError, gResult, sResult>>

dvars == <<restricted, delivery, dCount>>

svars == <<document, segments, messages, markdown>>

cvars == <<store, statsCache, summaryCache, cooldown, command, answer, requests,
           jobData, anchors, flushes>>

gvars == <<processedUpdates, freshId, passes, drops, userRequests, now,
           clockSteps, passedAt, refused>>

vars == <<qvars, avars, dvars, svars, cvars, gvars>>

(***************************************************************************)
(* TaskQueue                                                               *)
(***************************************************************************)

\* processQueue: the early return that keeps a second drain loop from starting
ShouldReturnEarly_NoFlag(isProcessing, q) == Len(q) = 0

ShouldReturnEarly(isProcessing, q) == isProcessing \/ Len(q) = 0

\* queue.shift(): the oldest task and the rest of the queue
Shift_Pop(q) == [task |-> q[Len(q)], rest |-> SubSeq(q, 1, Len(q) - 1)]

Shift(q) == [task |-> Head(q), rest |-> Tail(q)]

\* emit('taskCompleted' | 'taskFailed', {taskId, ...})
EmitOutcome_NoFailure(ev, j, ok) ==
  IF ok THEN Append(ev, [type |-> "taskCompleted", id |-> j]) ELSE ev

EmitOutcome(ev, j, ok) ==
  Append(ev, [type |-> IF ok THEN "taskCompleted" ELSE "taskFailed", id |-> j])

\* where the drain loop stands once the outcome of a task has been handled: the
\* try/catch of processSummaryTask (and the one of processQueue around it)
\* swallows the exception, so the loop always goes on to its while test
AfterSettle_Rethrow(ok) == IF ok THEN "looping" ELSE "aborted"

AfterSettle(ok) == "looping"

\* the value processQueue leaves in this.processing when the queue is drained
ProcessingAfterDrain_Stuck == TRUE

ProcessingAfterDrain == FALSE

\* the synchronous prefix of summarizeMessages: ensureInitialized and the
\* 50000-character check reject before any backend call is made
SummarizePrefix(init, input) ==
  IF ~init THEN "uninitialized"
  ELSE IF input = "toolong" THEN "toolong"
  ELSE "calling"

\* one iteration of the while loop of processQueue up to its first suspension:
\* shift, currentTask, processTask (status, taskStatus.set, emit taskStarted),
\* processSummaryTask up to the await on summarizeMessages. q, st, ts, lp are
\* the queue, the statuses, the taskStatus keys and the loop positions it finds.
StartTask(q, st, ts, lp, inputs) ==
  LET s == Shift(q)
      t == s.task
      p == SummarizePrefix(azureInit, inputs[t])
  IN /\ queue' = s.rest
     /\ currentTask' = t
     /\ status' = [st EXCEPT ![t] = "processing"]
     /\ taskStatus' = ts \cup {t}
     /\ loopPc' = [lp EXCEPT ![t] = IF p = "calling" THEN "summarize" ELSE "settled"]
     /\ outcome' = [outcome EXCEPT ![t] = IF p = "calling" THEN "none" ELSE p]

\* addSummaryTask(taskData): push, taskStatus.set, then processQueue()
Enqueue(input) ==
  /\ nextId <= MaxJobs
  /\ LET j == nextId
         q == Append(queue, j)
         st == [status EXCEPT ![j] = "queued"]
         ts == taskStatus \cup {j}
         inputs == [jobInput EXCEPT ![j] = input]
     IN /\ nextId' = nextId + 1
        /\ jobInput' = inputs
        /\ enqueued' = Append(enqueued, j)
        /\ IF ShouldReturnEarly(processing, q)
           THEN /\ queue' = q
                /\ status' = st
                /\ taskStatus' = ts
                /\ UNCHANGED <<processing, currentTask, loopPc, outcome>>
           ELSE /\ processing' = TRUE
                /\ StartTask(q, st, ts, loopPc, inputs)
  /\ UNCHANGED <<taskResults, timers, attempts, events, handled, azureInit>>

\* addSummaryTask called with task data the model does not look into
AddSummaryTask(input) ==
  /\ Enqueue(input)
  /\ UNCHANGED <<avars, dvars, svars, cvars, gvars>>

\* how summarizeMessages settles on a reply: it returns any non-empty text as
\* the summary, throws on an empty one, and rethrows an exception of the call
ReplyOutcome_RejectCut(reply) ==
  CASE reply = "content" -> "ok"
    [] reply \in {"empty", "cut"} -> "empty"
    [] OTHER -> "provider"

ReplyOutcome(reply) ==
  CASE reply \in {"content", "cut"} -> "ok"
    [] reply = "empty" -> "empty"
    [] OTHER -> "provider"

\* the chat-completion call of summarizeMessages returns or throws
AzureResponds(j, reply) ==
  /\ loopPc[j] = "summarize"
  /\ attempts' = [attempts EXCEPT ![j] =
                    Append(@, [backend |-> "secondary", ok |-> reply # "throws",
                               text |-> reply])]
  /\ outcome' = [outcome EXCEPT ![j] = ReplyOutcome(reply)]
  /\ loopPc' = [loopPc EXCEPT ![j] = "settled"]
  /\ UNCHANGED <<queue, processing, currentTask, taskStatus, taskResults, status,
                 timers, nextId, jobInput, events, handled, enqueued, azureInit>>
  /\ UNCHANGED <<avars, dvars, svars, cvars, gvars>>

\* setTaskResult(taskId, result)
SetTaskResult_Reopen(j, ok) ==
  /\ taskResults' = [taskResults EXCEPT ![j] = IF ok THEN "success" ELSE "failure"]
  /\ status' = IF j \in taskStatus
               THEN [status EXCEPT ![j] = IF ok THEN "completed" ELSE "queued"]
               ELSE status
  /\ timers' = [timers EXCEPT ![j] = @ + 1]

SetTaskResult(j, ok) ==
  /\ taskResults' = [taskResults EXCEPT ![j] = IF ok THEN "success" ELSE "failure"]
  /\ status' = IF j \in taskStatus
               THEN [status EXCEPT ![j] = IF ok THEN "completed" ELSE "failed"]
               ELSE status
  /\ timers' = [timers EXCEPT ![j] = @ + 1]

\* generateCacheKey('summary', {chatId, messageCount, latestMessageDate}): the
\* md5 digest of the three values, taken to be as distinct as they are
GenerateCacheKey(chatId, messageCount, latestMessageDate) ==
  <<chatId, messageCount, latestMessageDate>>

\* setSummaryCache(chatId, messageCount, stats.latest_message, summaryResult)
SetSummaryCache(cache, data) ==
  cache \cup {GenerateCacheKey(data.chatId, data.messageCount, data.stats.latest_message)}

\* processSummaryTask after the await: the success path (setTaskResult,
\* setSummaryCache, emit) or the catch block (setTaskResult, emit)
SettleTask(j) ==
  /\ loopPc[j] = "settled"
  /\ LET ok == outcome[j] = "ok"
         ev == EmitOutcome(events, j, ok)
     IN /\ SetTaskResult(j, ok)
        /\ summaryCache' = IF ok THEN SetSummaryCache(summaryCache, jobData[j])
                           ELSE summaryCache
        /\ events' = ev
        /\ handled' = [handled EXCEPT ![j] = @ + Listeners * (Len(ev) - Len(events))]
        /\ loopPc' = [loopPc EXCEPT ![j] =
                        IF AfterSettle(ok) = "looping" THEN "looping" ELSE "none"]
  /\ UNCHANGED <<queue, processing, currentTask, taskStatus, nextId, jobInput,
                 outcome, attempts, enqueued, azureInit>>
  /\ UNCHANGED <<store, statsCache, cooldown, command, answer, requests, jobData,
                 anchors, flushes>>
  /\ UNCHANGED <<avars, dvars, svars, gvars>>

\* processQueue after 'await this.processTask(task)': currentTask = null, then
\* the while test: the next task, or processing = false
LoopContinue(j) ==
  /\ loopPc[j] = "looping"
  /\ IF Len(queue) > 0
     THEN /\ StartTask(queue, status, taskStatus, [loopPc EXCEPT ![j] = "none"], jobInput)
          /\ UNCHANGED processing
     ELSE /\ currentTask' = NoTask
          /\ processing' = ProcessingAfterDrain
          /\ loopPc' = [loopPc EXCEPT ![j] = "none"]
          /\ UNCHANGED <<queue, status, taskStatus, outcome>>
  /\ UNCHANGED <<taskResults, timers, nextId, jobInput, attempts, events,
                 handled, enqueued, azureInit>>
  /\ UNCHANGED <<avars, dvars, svars, cvars, gvars>>

\* the setTimeout callback of setTaskResult, 10 minutes later
EvictResult_KeepStatus(j) ==
  /\ timers[j] > 0
  /\ timers' = [timers EXCEPT ![j] = @ - 1]
  /\ taskResults' = [taskResults EXCEPT ![j] = "none"]
  /\ UNCHANGED <<queue, processing, currentTask, taskStatus, status, nextId, jobInput,
                 loopPc, outcome, attempts, events, handled, enqueued, azureInit>>
  /\ UNCHANGED <<avars, dvars, svars, cvars, gvars>>

EvictResult(j) ==
  /\ timers[j] > 0
  /\ timers' = [timers EXCEPT ![j] = @ - 1]
  /\ taskResults' = [taskResults EXCEPT ![j] = "none"]
  /\ taskStatus' = taskStatus \ {j}
  /\ UNCHANGED <<queue, processing, currentTask, status, nextId, jobInput, loopPc,
                 outcome, attempts, events, handled, enqueued, azureInit>>
  /\ UNCHANGED <<avars, dvars, svars, cvars, gvars>>

\* AzureOpenAIService.init(): sets isInitialized unless an environment
\* variable is missing
AzureInit(envComplete) ==
  /\ ~azureInit
  /\ azureInit' = envComplete
  /\ UNCHANGED <<queue, processing, currentTask, taskStatus, taskResults, status,
                 timers, nextId, jobInput, loopPc, outcome, attempts, events,
                 handled, enqueued>>
  /\ UNCHANGED <<avars, dvars, svars, cvars, gvars>>

(***************************************************************************)
(* The /summary command (commands/summary.js) with the message store and   *)
(* the caches it reads.  One chat is followed; a message is its author.    *)
(* The handler is cut at its awaits: the cooldown check, the statistics    *)
(* with the cache lookup, the reading of the messages with the enqueue,    *)
(* and the storing of the anchor after the placeholder has been edited.    *)
(***************************************************************************)

\* the chat the commands are sent in
CommandChat == 1

\* who writes messages in the chat
Users == {1, 2}

\* who sends the commands
Requesters == {1}

\* the counts asked for: /summary 2, /summary 3
RequestedCounts == {2, 3}

\* messages the chat can hold, and commands it can receive
MaxMessages == 3

MaxRequests == 2

NoStats == [total_messages |-> -1, unique_users |-> 0, latest_message |-> 0]

NoData == [chatId |-> 0, requested |-> 0, messageCount |-> 0, messages |-> <<>>,
           stats |-> NoStats]

NoKey == <<0, 0, 0>>

IdleCommand == [pc |-> "idle", user |-> 0, requested |-> 0, messageCount |-> 0,
                stats |-> NoStats]

AuthorsOf(msgs) == {msgs[i] : i \in 1..Len(msgs)}

\* getChatStats: COUNT(*), COUNT(DISTINCT user_id) and MAX(date) over every
\* message of the chat; a message's date is its position in the store
GetChatStats(msgs) ==
  [total_messages |-> Len(msgs),
   unique_users |-> Cardinality(AuthorsOf(msgs)),
   latest_message |-> Len(msgs)]

\* getRecentMessages(chatId, limit): the last limit messages, oldest first
GetRecentMessages(msgs, limit) ==
  LET n == IF limit < Len(msgs) THEN limit ELSE Len(msgs)
  IN SubSeq(msgs, Len(msgs) - n + 1, Len(msgs))

\* the metadata summarizeMessages puts into its result
Metadata(msgs, stats) ==
  [messagesAnalyzed |-> Len(msgs), uniqueUsers |-> stats.unique_users]

\* canMakeAPIRequest: false while the user's last request in the chat is
\* younger than five minutes
CanMakeAPIRequest(limited, user) == user \notin limited

\* getSummaryCache(chatId, messageCount, latestMessageDate) finds an entry
GetSummaryCache_Miss(cache, key) == FALSE

GetSummaryCache(cache, key) == key \in cache

\* summaryCommand up to its first await: the cooldown check, which also
\* records the request, and the placeholder message
SummaryCommand(user, n) ==
  /\ command.pc = "idle"
  /\ requests < MaxRequests
  /\ requests' = requests + 1
  /\ IF CanMakeAPIRequest(cooldown, user)
     THEN /\ cooldown' = cooldown \cup {user}
          /\ command' = [IdleCommand EXCEPT !.pc = "stats", !.user = user,
                                            !.requested = n]
          /\ UNCHANGED answer
     ELSE /\ answer' = [kind |-> "too_frequent", key |-> NoKey, job |-> NoTask]
          /\ UNCHANGED <<cooldown, command>>
  /\ UNCHANGED <<store, statsCache, summaryCache, jobData, anchors, flushes>>
  /\ UNCHANGED <<qvars, avars, dvars, svars, gvars>>

\* the statistics (cached or read from the store), the clamping of the count,
\* and the summary cache lookup: a hit is answered at once
CommandLookup ==
  /\ command.pc = "stats"
  /\ LET stats == IF statsCache # NoStats THEN statsCache ELSE GetChatStats(store)
         count == IF stats.total_messages < command.requested
                  THEN stats.total_messages ELSE command.requested
         key == GenerateCacheKey(CommandChat, count, stats.latest_message)
     IN /\ statsCache' = stats
        /\ IF stats.total_messages = 0
           THEN /\ answer' = [kind |-> "no_records", key |-> NoKey, job |-> NoTask]
                /\ command' = IdleCommand
           ELSE IF GetSummaryCache(summaryCache, key)
           THEN /\ answer' = [kind |-> "cached", key |-> key, job |-> NoTask]
                /\ command' = IdleCommand
           ELSE /\ command' = [command EXCEPT !.pc = "recent", !.messageCount = count,
                                              !.stats = stats]
                /\ UNCHANGED answer
  /\ UNCHANGED <<store, summaryCache, cooldown, requests, jobData, anchors, flushes>>
  /\ UNCHANGED <<qvars, avars, dvars, svars, gvars>>

\* getRecentMessages, then addSummaryTask with the messages and the statistics;
\* the handler goes on to edit the placeholder
CommandEnqueue(input) ==
  /\ command.pc = "recent"
  /\ LET msgs == GetRecentMessages(store, command.messageCount)
         key == GenerateCacheKey(CommandChat, command.messageCount,
                                 command.stats.latest_message)
     IN IF Len(msgs) = 0
        THEN /\ answer' = [kind |-> "no_records", key |-> NoKey, job |-> NoTask]
             /\ UNCHANGED <<qvars, jobData, anchors, flushes>>
        ELSE /\ Enqueue(input)
             /\ jobData' = [jobData EXCEPT ![nextId] =
                              [chatId |-> CommandChat, requested |-> command.requested,
                               messageCount |-> command.messageCount,
                               messages |-> msgs, stats |-> command.stats]]
             /\ anchors' = [anchors EXCEPT ![nextId] = "pending"]
             /\ answer' = [kind |-> "enqueued", key |-> key, job |-> nextId]
  /\ command' = IdleCommand
  /\ UNCHANGED <<store, statsCache, summaryCache, cooldown, requests, flushes>>
  /\ UNCHANGED <<avars, dvars, svars, gvars>>

\* the edit of the placeholder returned: setCustomCache('task_message_<id>')
StoreAnchor(j) == anchors' = [anchors EXCEPT ![j] = "stored"]

AnchorStored(j) ==
  /\ anchors[j] = "pending"
  /\ StoreAnchor(j)
  /\ UNCHANGED <<store, statsCache, summaryCache, cooldown, command, answer,
                 requests, jobData, flushes>>
  /\ UNCHANGED <<qvars, avars, dvars, svars, gvars>>

\* the edit of the placeholder threw: the catch block reports the failure and
\* the anchor is never stored
EditThrows(j) ==
  /\ anchors[j] = "pending"
  /\ anchors' = [anchors EXCEPT ![j] = "never"]
  /\ UNCHANGED <<store, statsCache, summaryCache, cooldown, command, answer,
                 requests, jobData, flushes>>
  /\ UNCHANGED <<qvars, avars, dvars, svars, gvars>>

\* the 15 minutes of the anchor are over
ExpireAnchor(j) ==
  /\ anchors[j] = "stored"
  /\ anchors' = [anchors EXCEPT ![j] = "expired"]
  /\ UNCHANGED <<store, statsCache, summaryCache, cooldown, command, answer,
                 requests, jobData, flushes>>
  /\ UNCHANGED <<qvars, avars, dvars, svars, gvars>>

\* a chat member writes a message: the message listener stores it
StoreMessage(author) ==
  /\ Len(store) < MaxMessages
  /\ store' = Append(store, author)
  /\ UNCHANGED <<statsCache, summaryCache, cooldown, command, answer, requests,
                 jobData, anchors, flushes>>
  /\ UNCHANGED <<qvars, avars, dvars, svars, gvars>>

\* the 10 minutes of the statistics entry are over
ExpireStats ==
  /\ statsCache # NoStats
  /\ statsCache' = NoStats
  /\ UNCHANGED <<store, summaryCache, cooldown, command, answer, requests,
                 jobData, anchors, flushes>>
  /\ UNCHANGED <<qvars, avars, dvars, svars, gvars>>

\* the 30 minutes of a summary entry are over
ExpireSummary(key) ==
  /\ key \in summaryCache
  /\ summaryCache' = summaryCache \ {key}
  /\ UNCHANGED <<store, statsCache, cooldown, command, answer, requests,
                 jobData, anchors, flushes>>
  /\ UNCHANGED <<qvars, avars, dvars, svars, gvars>>

\* the five minutes of a user's cooldown are over
ExpireCooldown(user) ==
  /\ user \in cooldown
  /\ cooldown' = cooldown \ {user}
  /\ UNCHANGED <<store, statsCache, summaryCache, command, answer, requests,
                 jobData, anchors, flushes>>
  /\ UNCHANGED <<qvars, avars, dvars, svars, gvars>>

(***************************************************************************)
(* Response recovery (services/ai/responseHandler.js and the parsing steps *)
(* of AIService.summarizeMessages).  A completion text is described by     *)
(* what the parsing code can tell apart: its shape, how the JSON is        *)
(* wrapped, the field in which the stream was cut, and the JSON value.     *)
(***************************************************************************)

\* the six fields of the structured document, in the order of the schema
FieldNames == <<"formatted_summary", "main_topics", "discussion_points",
                "activity_analysis", "special_events", "other_notes">>

\* kinds of a field's value: missing, a non-empty string, the empty string,
\* a non-zero number, a non-empty array of strings, the empty array
SummaryKinds == {"absent", "str", "empty", "num"}

ListKinds == {"absent", "arr", "noarr", "str", "num"}

PointKinds == {"absent", "arr"}

TextKinds == {"absent", "str"}

Objects ==
  [formatted_summary : SummaryKinds, main_topics : ListKinds,
   discussion_points : PointKinds, activity_analysis : TextKinds,
   special_events : TextKinds, other_notes : TextKinds]

NoFields == [n \in {FieldNames[i] : i \in 1..6} |-> "absent"]

\* JSON values a completion can hold: null, a number, a string, an array, or
\* an object with some of the six fields
JsonValues ==
  {[t |-> x, f |-> NoFields] : x \in {"null", "num", "str", "arr"}}
    \cup {[t |-> "obj", f |-> o] : o \in Objects}

NullValue == [t |-> "null", f |-> NoFields]

PlainText(shape) == [shape |-> shape, wrap |-> "bare", cutAt |-> 0, val |-> NullValue]

\* completion texts: nothing, white space, prose, prose long enough to be
\* dumped as text, and JSON: as is, inside a code fence, with raw line breaks
\* or trailing commas ("dirty"), or cut off inside the string or array value
\* of field number cutAt (the later fields never arrived)
RawTexts ==
  {PlainText(x) : x \in {"empty", "blank", "prose", "longprose"}}
    \cup {[shape |-> "json", wrap |-> w, cutAt |-> 0, val |-> v] :
            w \in {"bare", "fenced", "dirty"}, v \in JsonValues}
    \cup {r \in [shape : {"json"}, wrap : {"bare", "fenced"}, cutAt : 1..6,
                 val : {[t |-> "obj", f |-> o] : o \in Objects}] :
            /\ r.val.f[FieldNames[r.cutAt]] \in {"str", "arr"}
            /\ \A k \in 1..6 : k > r.cutAt => r.val.f[FieldNames[k]] = "absent"}

\* JSON.parse(text)
JSONParse(raw) ==
  IF raw.shape = "json" /\ raw.wrap = "bare" /\ raw.cutAt = 0
  THEN [ok |-> TRUE, val |-> raw.val]
  ELSE [ok |-> FALSE, val |-> NullValue]

\* the defaults repairTruncatedJson gives to the fields it cannot extract
DefaultKind(name) ==
  IF name \in {"main_topics", "discussion_points"} THEN "arr" ELSE "str"

\* repairTruncatedJson(text) for a text that starts with '{' and has no
\* closing brace: a cut string is closed and kept, complete fields are
\* extracted, missing ones get defaults; a cut array is extracted up to its
\* first comma, which leaves text that is not JSON
RepairTruncatedJson(raw) ==
  IF raw.val.f[FieldNames[raw.cutAt]] = "arr"
  THEN PlainText("broken")
  ELSE [shape |-> "json", wrap |-> "bare", cutAt |-> 0,
        val |-> [t |-> "obj",
                 f |-> [n \in DOMAIN raw.val.f |->
                          IF raw.val.f[n] = "absent" THEN DefaultKind(n)
                          ELSE raw.val.f[n]]]]

\* cleanJsonContent(text): trim, strip the code fence, keep '{' .. '}' (or
\* repair when the closing brace is missing), drop trailing commas, turn line
\* breaks and tabs into spaces
\* cleanJsonContent finds an opening brace and no closing brace after it
NeedsRepair(raw) == raw.shape = "json" /\ raw.val.t = "obj" /\ raw.cutAt > 0

CleanJsonContent(raw) ==
  IF raw.shape = "blank" THEN PlainText("empty")
  ELSE IF raw.shape # "json" THEN raw
  ELSE IF NeedsRepair(raw) THEN RepairTruncatedJson(raw)
  ELSE [raw EXCEPT !.wrap = "bare"]

\* the patterns of extractSummaryFromFailedJson that find a field in the text
FieldInText(raw, name) == raw.shape = "json" /\ raw.val.f[name] # "absent"

CutField(raw) == IF raw.cutAt > 0 THEN FieldNames[raw.cutAt] ELSE "none"

\* extractSummaryFromFailedJson(text): always a string; which one
ExtractSummaryFromFailedJson(raw) ==
  IF raw.shape = "empty" THEN "format_notice"
  ELSE IF FieldInText(raw, "formatted_summary") /\ raw.val.f.formatted_summary = "str"
  THEN "extracted"
  ELSE LET found ==
             {n \in {"main_topics", "discussion_points"} :
                FieldInText(raw, n) /\ raw.val.f[n] = "arr" /\ CutField(raw) # n}
               \cup {n \in {"activity_analysis", "special_events"} :
                       FieldInText(raw, n) /\ raw.val.f[n] = "str"}
               \cup {n \in {"other_notes"} :
                       FieldInText(raw, n) /\ raw.val.f[n] = "str" /\ CutField(raw) # n}
       IN IF Cardinality(found) >= 2 THEN "reconstructed"
          ELSE IF raw.shape = "longprose" THEN "textdump"
          ELSE "apology"

Truthy(k) == k \in {"str", "num", "arr", "noarr"}

\* value.length > 0
HasItems(k) == k \in {"str", "arr"}

\* value.forEach is a function
HasForEach(k) == k \in {"arr", "noarr"}

\* formatStructuredSummary(structuredResult, lang): the body it returns, or
\* the TypeError it raises
FormatStructuredSummary(v) ==
  IF v.t = "null" THEN [raise |-> TRUE, body |-> "none"]
  ELSE IF v.t # "obj" THEN [raise |-> FALSE, body |-> "blank"]
  ELSE IF Truthy(v.f.formatted_summary)
  THEN [raise |-> FALSE,
        body |-> IF v.f.formatted_summary = "str" THEN "provider" ELSE "number"]
  ELSE LET lists == {v.f.main_topics, v.f.discussion_points}
           listed == {k \in lists : Truthy(k) /\ HasItems(k)}
           texts == {n \in {"activity_analysis", "special_events", "other_notes"} :
                       Truthy(v.f[n])}
       IN IF \E k \in listed : ~HasForEach(k)
          THEN [raise |-> TRUE, body |-> "none"]
          ELSE [raise |-> FALSE,
                body |-> IF listed # {} \/ texts # {} THEN "rebuilt" ELSE "blank"]

\* the structured result summarizeMessages builds when both parses failed
FallbackDocument ==
  [t |-> "obj",
   f |-> [formatted_summary |-> "str", main_topics |-> "noarr",
          discussion_points |-> "noarr", activity_analysis |-> "empty",
          special_events |-> "empty", other_notes |-> "empty"]]

\* whether the catch block of a JSON.parse runs: only when the parse threw
ContinueAfter_Always(parsed) == TRUE

ContinueAfter(parsed) == ~parsed

\* the recovery steps summarizeMessages runs on a completion text, in order:
\* JSON.parse, cleanJsonContent (with repairTruncatedJson inside it when the
\* closing brace is missing) followed by its JSON.parse, and
\* extractSummaryFromFailedJson
RecoverySteps(raw) ==
  LET strict == JSONParse(raw)
      cleaned == JSONParse(CleanJsonContent(raw))
      second == <<"cleanup">> \o (IF NeedsRepair(raw) THEN <<"repair">> ELSE <<>>)
      third == IF ContinueAfter(cleaned.ok) THEN <<"extract">> ELSE <<>>
  IN <<"strict">> \o (IF ContinueAfter(strict.ok) THEN second \o third ELSE <<>>)

\* summarizeMessages from the completion text to its return value: the empty
\* check, strict parse, cleanup parse, extraction fallback, formatting
Normalize(raw) ==
  IF raw.shape \in {"empty", "blank"}
  THEN [kind |-> "throw", why |-> "empty_content", tier |-> 0, body |-> "none",
        steps |-> <<>>]
  ELSE LET strict == JSONParse(raw)
           cleaned == JSONParse(CleanJsonContent(raw))
           tier == IF strict.ok THEN 1
                   ELSE IF cleaned.ok THEN (IF raw.cutAt > 0 THEN 3 ELSE 2)
                   ELSE 4
           structured == IF strict.ok THEN strict.val
                         ELSE IF cleaned.ok THEN cleaned.val
                         ELSE FallbackDocument
           fmt == FormatStructuredSummary(structured)
       IN IF fmt.raise
          THEN [kind |-> "throw", why |-> "type_error", tier |-> tier, body |-> "none",
                steps |-> RecoverySteps(raw)]
          ELSE [kind |-> "doc", why |-> "none", tier |-> tier,
                body |-> IF tier = 4 THEN ExtractSummaryFromFailedJson(raw) ELSE fmt.body,
                steps |-> RecoverySteps(raw)]

\* the keys of the metadata object summarizeMessages returns with the summary
MetadataKeys ==
  {"messagesAnalyzed", "uniqueUsers", "timeRange", "topUsers", "tokensUsed",
   "structuredData"}

\* what a reader of the returned document finds under metadata.recovered (or
\* under recovered on the document itself, whose keys are summary and metadata)
RecoveredFlag(doc) ==
  IF "recovered" \in MetadataKeys \cup {"summary", "metadata"} THEN "true"
  ELSE "undefined"

(***************************************************************************)
(* AIService: generateContentWithFallback and summarizeMessages            *)
(***************************************************************************)

\* the errors a chat.completions.create call can throw
Errors == {"err_a", "err_b"}

Callers == {"direct", "summarize"}

NoResult ==
  [kind |-> "none", modelUsed |-> "none", content |-> PlainText("empty"),
   primaryError |-> "none", fallbackError |-> "none", msg |-> "none"]

NoSummary == [kind |-> "none", why |-> "none", tier |-> 0, body |-> "none", steps |-> <<>>]

\* new Error(message) without further properties
PlainError(msg) == [NoResult EXCEPT !.kind = "throw", !.msg = msg]

\* the return value when the primary model answered
PrimaryResult(content) ==
  [NoResult EXCEPT !.kind = "return", !.modelUsed = "primary", !.content = content]

\* the return value when the fallback model answered
FallbackResult(content, pe) ==
  [NoResult EXCEPT !.kind = "return", !.modelUsed = "fallback", !.content = content,
                   !.primaryError = pe]

\* the error thrown when both calls failed
CompositeError(pe, fe) ==
  [NoResult EXCEPT !.kind = "throw", !.msg = "all_failed", !.primaryError = pe,
                   !.fallbackError = fe]

\* the catch block of the primary attempt: the fallback model when there is
\* one, else an error
OnPrimaryError_Retry(fallbackConfigured) == "primary"

OnPrimaryError_NoFailover(fallbackConfigured) == "throw"

OnPrimaryError(fallbackConfigured) ==
  IF fallbackConfigured THEN "fallback" ELSE "throw"

\* an attempt on a model, and the same attempt once its chat.completions.create
\* has returned a completion text or thrown an error, or once it has thrown
\* because the model is not configured
Call(backend) == [backend |-> backend, outcome |-> "pending", content |-> PlainText("empty")]

Answered(log, how, content) ==
  [log EXCEPT ![Len(log)].outcome = how, ![Len(log)].content = content]

\* how a settled generateContentWithFallback reaches its caller: the test
\* script reads it; summarizeMessages parses a result and rethrows an error
Deliver(result) ==
  /\ gResult' = result
  /\ IF gCaller' = "summarize"
     THEN IF result.kind = "return"
          THEN gpc' = "normalize" /\ sResult' = NoSummary
          ELSE /\ gpc' = "done"
               /\ sResult' = [NoSummary EXCEPT !.kind = "throw", !.why = result.msg]
     ELSE gpc' = "done" /\ sResult' = NoSummary

\* the catch (primaryError) block up to the fallback call
HandlePrimaryError(e, log) ==
  LET next == OnPrimaryError(fallbackClient)
  IN /\ gPrimaryError' = e
     /\ IF next = "throw"
        THEN gLog' = log /\ Deliver(PlainError("no_fallback"))
        ELSE /\ gLog' = Append(log, Call(next))
             /\ gpc' = next
             /\ gResult' = NoResult
             /\ sResult' = NoSummary

\* AIService.init()
AIServiceInit(primaryConfigured, fallbackConfigured) ==
  /\ ~aiInit
  /\ gpc = "idle"
  /\ aiInit' = TRUE
  /\ primaryClient' = primaryConfigured
  /\ fallbackClient' = fallbackConfigured
  /\ UNCHANGED <<gpc, gCaller, gCallNo, gLog, gPrimaryError, gResult, sResult>>
  /\ UNCHANGED <<qvars, dvars, svars, cvars, gvars>>

\* a call of generateContentWithFallback, by the test script or by
\* summarizeMessages (after its own ensureInitialized and length check), up to
\* the first chat.completions.create
GenerateStart(caller, input) ==
  /\ gpc \in {"idle", "done"}
  /\ gCallNo < MaxCalls
  /\ gCallNo' = gCallNo + 1
  /\ gCaller' = caller
  /\ IF ~aiInit
     THEN /\ gpc' = "done"
          /\ gLog' = <<>>
          /\ gPrimaryError' = "none"
          /\ gResult' = IF caller = "direct" THEN PlainError("uninitialized") ELSE NoResult
          /\ sResult' = IF caller = "direct" THEN NoSummary
                        ELSE [NoSummary EXCEPT !.kind = "throw", !.why = "uninitialized"]
     ELSE IF caller = "summarize" /\ input = "toolong"
     THEN /\ gpc' = "done"
          /\ gLog' = <<>>
          /\ gPrimaryError' = "none"
          /\ gResult' = NoResult
          /\ sResult' = [NoSummary EXCEPT !.kind = "throw", !.why = "toolong"]
     ELSE IF primaryClient
     THEN /\ gpc' = "primary"
          /\ gLog' = <<Call("primary")>>
          /\ gPrimaryError' = "none"
          /\ gResult' = NoResult
          /\ sResult' = NoSummary
     ELSE HandlePrimaryError("unconfigured",
                             Answered(<<Call("primary")>>, "unconfigured", PlainText("empty")))
  /\ UNCHANGED <<aiInit, primaryClient, fallbackClient>>
  /\ UNCHANGED <<qvars, dvars, svars, cvars, gvars>>

\* the texts a completion can carry to each caller
ContentsFor(caller) == IF caller = "summarize" THEN RawTexts ELSE {PlainText("prose")}

\* primaryClient.chat.completions.create returns
PrimaryReturns(content) ==
  /\ gpc = "primary"
  /\ content \in ContentsFor(gCaller)
  /\ gLog' = Answered(gLog, "ok", content)
  /\ gCaller' = gCaller
  /\ Deliver(PrimaryResult(content))
  /\ UNCHANGED <<aiInit, primaryClient, fallbackClient, gCallNo, gPrimaryError>>
  /\ UNCHANGED <<qvars, dvars, svars, cvars, gvars>>

\* primaryClient.chat.completions.create throws
PrimaryThrows(e) ==
  /\ gpc = "primary"
  /\ gCaller' = gCaller
  /\ HandlePrimaryError(e, Answered(gLog, e, PlainText("empty")))
  /\ UNCHANGED <<aiInit, primaryClient, fallbackClient, gCallNo>>
  /\ UNCHANGED <<qvars, dvars, svars, cvars, gvars>>

\* fallbackClient.chat.completions.create returns
FallbackReturns(content) ==
  /\ gpc = "fallback"
  /\ content \in ContentsFor(gCaller)
  /\ gLog' = Answered(gLog, "ok", content)
  /\ gCaller' = gCaller
  /\ Deliver(FallbackResult(content, gPrimaryError))
  /\ UNCHANGED <<aiInit, primaryClient, fallbackClient, gCallNo, gPrimaryError>>
  /\ UNCHANGED <<qvars, dvars, svars, cvars, gvars>>

\* fallbackClient.chat.completions.create throws
FallbackThrows(e) ==
  /\ gpc = "fallback"
  /\ gLog' = Answered(gLog, e, PlainText("empty"))
  /\ gCaller' = gCaller
  /\ Deliver(CompositeError(gPrimaryError, e))
  /\ UNCHANGED <<aiInit, primaryClient, fallbackClient, gCallNo, gPrimaryError>>
  /\ UNCHANGED <<qvars, dvars, svars, cvars, gvars>>

\* summarizeMessages after the await: parse, recover, format, return or throw
SummarizeFinish ==
  /\ gpc = "normalize"
  /\ sResult' = Normalize(gResult.content)
  /\ gpc' = "done"
  /\ UNCHANGED <<aiInit, primaryClient, fallbackClient, gCaller, gCallNo, gLog,
                 gPrimaryError, gResult>>
  /\ UNCHANGED <<qvars, dvars, svars, cvars, gvars>>

(***************************************************************************)
(* TaskQueueHandler: delivery of the result events to Telegram            *)
(***************************************************************************)

\* retryConfig of TaskQueueHandler
MaxRetries == 3

RetryDelay == 1000

BackoffMultiplier == 2

\* DEFAULT_RESTRICTION_TTL of chatPermissionService, in seconds
DefaultRestrictionTtl == 21600

Chats == {1, 2}

\* handler calls that can be in progress at once: the listeners are async
\* functions the queue does not wait for
Slots == {1, 2}

\* how a Telegram call can end: it returns, or throws an error that is a
\* "can't parse entities" error, a network error (isNetworkError), a missing
\* send right (isSendMessageForbiddenError), a content-filter error
\* (isContentFilterError), or any other error
SendOutcomes == {"ok", "markup", "network", "permission", "content", "other"}

\* number of segments splitTextIntoSegments returns for a long summary; 0
\* stands for a summary short enough for one message
SegmentCounts == {1, 2}

\* the sends made through safeSendTelegramMessage / retryNetworkOperation; the
\* later segments, the statistics and the fallback notice call bot.telegram
\* directly
Retried(step) ==
  step \in {"native", "escaped", "safe", "plain", "seg1", "truncated",
            "net_notice", "content_notice", "error_notice"}

\* retryNetworkOperation: whether a failed call is tried again
ShouldRetry_Never(step, result, attempt) == FALSE

ShouldRetry(step, result, attempt) ==
  Retried(step) /\ result = "network" /\ attempt < MaxRetries

\* retryNetworkOperation: the delay before the retry that follows attempt
DelayBefore(attempt) ==
  RetryDelay * (CASE attempt = 0 -> 1
                  [] attempt = 1 -> BackoffMultiplier
                  [] attempt = 2 -> BackoffMultiplier * BackoffMultiplier
                  [] OTHER -> BackoffMultiplier * BackoffMultiplier * BackoffMultiplier)

\* sendSingleSummary: what follows a settled send: the next representation,
\* "return", or "throw" (the error goes to the caller)
NextInSingle(step, result) ==
  IF result = "ok" THEN "return"
  ELSE CASE step = "native" -> IF result = "markup" THEN "escaped" ELSE "throw"
         [] step = "escaped" -> IF result = "network" THEN "throw"
                                ELSE IF result = "markup" THEN "safe"
                                ELSE "plain"
         [] step = "safe" -> "plain"
         [] OTHER -> "throw"

\* sendSegmentedSummary: what follows a settled send
NextInSegmented_StatsFirst(step, seg, nSeg, result) ==
  IF step = "truncated" THEN (IF result = "ok" THEN "return" ELSE "throw")
  ELSE IF result # "ok" THEN "truncated"
  ELSE IF step = "seg1" THEN "stats"
  ELSE IF seg < nSeg THEN "segN"
  ELSE "return"

NextInSegmented(step, seg, nSeg, result) ==
  IF step = "truncated" THEN (IF result = "ok" THEN "return" ELSE "throw")
  ELSE IF result # "ok" THEN "truncated"
  ELSE IF step = "stats" THEN "return"
  ELSE IF seg < nSeg THEN "segN"
  ELSE "stats"

\* the catch block of handleTaskCompleted: the branch taken for an error
HandlerCatch(result) ==
  CASE result = "permission" -> "mark"
    [] result = "network" -> "net_notice"
    [] result = "content" -> "content_notice"
    [] OTHER -> "fallback_notice"

\* the catch blocks of the notices and of handleTaskFailed log the error and
\* return: the handler's promise resolves
AfterCatch_Rethrow(result) == IF result = "ok" THEN "resolved" ELSE "rejected"

AfterCatch(result) == "resolved"

\* why summarizeMessages rejected a job: the provider refused the content, the
\* connection failed, the message text was beyond the limit, the reply was
\* empty, or anything else
JobFailures == {"policy", "network", "toolong", "empty", "other"}

\* the error object summarizeMessages throws, described by what the handler's
\* classifiers look at: its code, its status and the phrase in its message
ThrownError(failure) ==
  CASE failure = "policy" ->
         [type |-> "Error", code |-> "content_filter", status |-> 400, text |-> "policy"]
    [] failure = "network" ->
         [type |-> "Error", code |-> "ETIMEDOUT", status |-> 0, text |-> "timeout"]
    [] failure = "toolong" ->
         [type |-> "Error", code |-> "none", status |-> 0, text |-> "toolong"]
    [] OTHER ->
         [type |-> "Error", code |-> "none", status |-> 0, text |-> "plain"]

\* error.message: a string, which has no code, status or message property
MessageOf(e) == [type |-> "string", code |-> "none", status |-> 0, text |-> e.text]

\* the error field of the 'taskFailed' event emitted by processSummaryTask
EventError(e) == MessageOf(e)

\* isContentFilterError(error)
IsContentFilterError(v) ==
  \/ v.code = "content_filter"
  \/ v.status = 400 /\ v.text = "policy"

\* isNetworkError(error): the code, or a phrase in error.message
IsNetworkError(v) ==
  \/ v.code \in {"ETIMEDOUT", "ECONNREFUSED", "ENOTFOUND", "ECONNRESET"}
  \/ v.type = "Error" /\ v.text = "timeout"

\* formatErrorMessage(error): the text handleTaskFailed sends
FormatErrorMessage(v) ==
  IF IsContentFilterError(v) THEN "content_notice"
  ELSE IF IsNetworkError(v) THEN "network_notice"
  ELSE IF v.text = "toolong" THEN "toolong_notice"
  ELSE "generic_failure"

\* the count sendFallbackMessage puts after /summary when metadata has none
DefaultMessageCount == 100

\* metadata.messagesAnalyzed of a result: the number of messages summarized
Counts == {1, 2}

\* Number(result?.metadata?.messagesAnalyzed ?? 100)
FallbackCount_Default(analyzed) == DefaultMessageCount

FallbackCount(analyzed) == IF analyzed = 0 THEN DefaultMessageCount ELSE analyzed

\* the sends that edit the placeholder message; the later segments and the
\* statistics are new messages
EditsPlaceholder(step) == step \notin {"segN", "stats", "pace", "none"}

\* the text an edit of the placeholder puts in its place
EditText(r, step) ==
  CASE step \in {"native", "escaped", "safe", "plain"} -> "summary"
    [] step = "seg1" -> "first_segment"
    [] step = "truncated" -> "truncated_summary"
    [] step = "net_notice" -> "network_notice"
    [] step = "error_notice" -> FormatErrorMessage(EventError(ThrownError(r.failure)))
    [] OTHER -> step

\* the setTimeout between two later segments of sendSegmentedSummary, in ms
PacingDelay == 100

\* a handler call that has not started
IdleDelivery ==
  [state |-> "idle", chat |-> 1, kind |-> "none", nSeg |-> 0, seg |-> 0,
   step |-> "none", attempt |-> 0, delays |-> <<>>, log |-> <<>>, cause |-> "none",
   flaggedCall |-> FALSE, marked |-> FALSE, endFlag |-> FALSE, resolved |-> "none",
   failure |-> "none", count |-> 0, shown |-> "placeholder", shownN |-> 0]

\* isChatSendRestricted(chatId)
IsChatSendRestricted(flags, chat) == flags[chat] > 0

\* markChatSendRestricted(chatId, description): the cache entry with its TTL
MarkChatSendRestricted(flags, chat) == [flags EXCEPT ![chat] = DefaultRestrictionTtl]

\* a Telegram call is issued for step; flagged tells whether the chat was
\* flagged send-restricted at that moment
IssueCall(r, step, seg, flagged) ==
  [r EXCEPT !.state = "inflight", !.step = step, !.seg = seg, !.attempt = 0,
            !.delays = <<>>, !.flaggedCall = @ \/ flagged]

\* the handler returns (or its promise rejects)
EndDelivery(r, how, didMark, flagAfter) ==
  [r EXCEPT !.state = "done", !.step = "none", !.resolved = how,
            !.marked = @ \/ didMark, !.endFlag = flagAfter]

\* handleTaskCompleted(event) up to its first await
HandleTaskCompleted(s, chat, nSeg, anchor, count) ==
  /\ delivery[s].state \in {"idle", "done"}
  /\ dCount < MaxDeliveries
  /\ dCount' = dCount + 1
  /\ LET r == [IdleDelivery EXCEPT !.chat = chat, !.kind = "completed", !.nSeg = nSeg,
                                   !.count = count]
         flagged == IsChatSendRestricted(restricted, chat)
     IN delivery' = [delivery EXCEPT ![s] =
          IF flagged \/ ~anchor THEN EndDelivery(r, "resolved", FALSE, flagged)
          ELSE IssueCall(r, IF nSeg = 0 THEN "native" ELSE "seg1", 1, flagged)]
  /\ UNCHANGED restricted
  /\ UNCHANGED <<qvars, avars, svars, cvars, gvars>>

\* handleTaskFailed(event) up to its first await
HandleTaskFailed(s, chat, anchor, failure) ==
  /\ delivery[s].state \in {"idle", "done"}
  /\ dCount < MaxDeliveries
  /\ dCount' = dCount + 1
  /\ LET r == [IdleDelivery EXCEPT !.chat = chat, !.kind = "failed", !.failure = failure]
         flagged == IsChatSendRestricted(restricted, chat)
     IN delivery' = [delivery EXCEPT ![s] =
          IF flagged \/ ~anchor THEN EndDelivery(r, "resolved", FALSE, flagged)
          ELSE IssueCall(r, "error_notice", 0, flagged)]
  /\ UNCHANGED restricted
  /\ UNCHANGED <<qvars, avars, svars, cvars, gvars>>

\* the handler after the final outcome of a send: the next send, the catch
\* block of the handler, a notice, the flag, or the end
AfterSend(s, r, result) ==
  LET chat == r.chat
      flagged == IsChatSendRestricted(restricted, chat)
      markAndEnd ==
        /\ restricted' = MarkChatSendRestricted(restricted, chat)
        /\ delivery' = [delivery EXCEPT ![s] = EndDelivery(r, "resolved", TRUE, TRUE)]
      endWith(res) ==
        /\ restricted' = restricted
        /\ delivery' = [delivery EXCEPT ![s] = EndDelivery(r, res, FALSE, flagged)]
      issue(step, seg) ==
        /\ restricted' = restricted
        /\ delivery' = [delivery EXCEPT ![s] = IssueCall(r, step, seg, flagged)]
      catch ==
        LET branch == HandlerCatch(result)
        IN IF branch = "mark" THEN markAndEnd
           ELSE /\ restricted' = restricted
                /\ delivery' = [delivery EXCEPT ![s] =
                     IssueCall([r EXCEPT !.cause = result], branch, 0, flagged)]
  IN IF r.step \in {"net_notice", "content_notice", "fallback_notice", "error_notice"}
     THEN IF result = "permission" THEN markAndEnd
          ELSE endWith(AfterCatch(result))
     ELSE LET next == IF r.nSeg = 0 THEN NextInSingle(r.step, result)
                      ELSE NextInSegmented(r.step, r.seg, r.nSeg, result)
          IN CASE next = "return" -> endWith("resolved")
               [] next = "throw" -> catch
               [] r.step = "segN" /\ next \in {"segN", "stats"} ->
                    /\ restricted' = restricted
                    /\ delivery' = [delivery EXCEPT ![s] = [r EXCEPT !.state = "pacing"]]
               [] next = "segN" -> issue("segN", r.seg + 1)
               [] OTHER -> issue(next, r.seg)

\* a Telegram call of the handler in slot s returns or throws
SendSettles(s, result) ==
  /\ delivery[s].state = "inflight"
  /\ LET r == delivery[s]
     IN IF ShouldRetry(r.step, result, r.attempt)
        THEN /\ delivery' = [delivery EXCEPT ![s] =
                  [r EXCEPT !.state = "delay",
                            !.delays = Append(@, DelayBefore(r.attempt))]]
             /\ restricted' = restricted
        ELSE LET edited == result = "ok" /\ EditsPlaceholder(r.step)
             IN AfterSend(s, [r EXCEPT !.log = Append(@,
                                 [step |-> r.step, outcome |-> result,
                                  calls |-> r.attempt + 1, delays |-> r.delays]),
                               !.shown = IF edited THEN EditText(r, r.step) ELSE @,
                               !.shownN = IF edited /\ r.step = "fallback_notice"
                                          THEN FallbackCount(r.count) ELSE @],
                          result)
  /\ UNCHANGED dCount
  /\ UNCHANGED <<qvars, avars, svars, cvars, gvars>>

\* the timer of retryNetworkOperation fires and the call is made again
RetryFires(s) ==
  /\ delivery[s].state = "delay"
  /\ delivery' = [delivery EXCEPT ![s] =
       [@ EXCEPT !.state = "inflight", !.attempt = @ + 1,
                 !.flaggedCall = @ \/ IsChatSendRestricted(restricted, delivery[s].chat)]]
  /\ UNCHANGED <<restricted, dCount>>
  /\ UNCHANGED <<qvars, avars, svars, cvars, gvars>>

\* the 100 ms timer after a later segment fires: the next segment, or the
\* statistics message
PacingElapses(s) ==
  /\ delivery[s].state = "pacing"
  /\ LET r == [delivery[s] EXCEPT !.log = Append(@,
                 [step |-> "pace", outcome |-> "ok", calls |-> 0,
                  delays |-> <<PacingDelay>>])]
         flagged == IsChatSendRestricted(restricted, r.chat)
     IN delivery' = [delivery EXCEPT ![s] =
          IF r.seg < r.nSeg THEN IssueCall(r, "segN", r.seg + 1, flagged)
          ELSE IssueCall(r, "stats", r.seg, flagged)]
  /\ UNCHANGED <<restricted, dCount>>
  /\ UNCHANGED <<qvars, avars, svars, cvars, gvars>>

\* the chat_send_restricted cache entry of a chat reaches its TTL
ExpireRestriction(chat) ==
  /\ restricted[chat] > 0
  /\ restricted' = [restricted EXCEPT ![chat] = 0]
  /\ UNCHANGED <<delivery, dCount>>
  /\ UNCHANGED <<qvars, avars, svars, cvars, gvars>>

\* admin cache clearing that the model follows
MaxFlushes == 1

\* userCache.flushAll() on the restriction entries
FlushRestrictions(flags) == [c \in DOMAIN flags |-> 0]

\* clearAllCache(): summaryCache, statsCache and userCache are flushed; the
\* cooldown entries, the anchors and the restriction entries live in userCache
ClearAllCache ==
  /\ flushes < MaxFlushes
  /\ flushes' = flushes + 1
  /\ summaryCache' = {}
  /\ statsCache' = NoStats
  /\ cooldown' = {}
  /\ anchors' = [j \in JobIds |-> IF anchors[j] = "stored" THEN "expired" ELSE anchors[j]]
  /\ restricted' = FlushRestrictions(restricted)
  /\ UNCHANGED <<store, command, answer, requests, jobData>>
  /\ UNCHANGED <<delivery, dCount>>
  /\ UNCHANGED <<qvars, avars, svars, gvars>>

\* clearChatCache(chatId): of the keys that contain the chat id, those with
\* 'stats' in them are deleted from statsCache and those with 'users' or
\* 'api_limit' from userCache; the restriction key has neither
ClearChatCache(chat) ==
  /\ statsCache' = IF chat = CommandChat THEN NoStats ELSE statsCache
  /\ cooldown' = IF chat = CommandChat THEN {} ELSE cooldown
  /\ UNCHANGED <<store, summaryCache, command, answer, requests, jobData, anchors,
                 flushes>>
  /\ UNCHANGED <<qvars, avars, dvars, svars, gvars>>

(***************************************************************************)
(* TaskQueueHandler: splitting a long summary into segments.  A text is    *)
(* described by its length and by the places of the characters the         *)
(* splitter looks for: "sp" a space, "nl" a line feed, "stop" a full stop  *)
(* (the ideographic one); every other character is "x".  Places count      *)
(* from 0, as string indices do.                                           *)
(***************************************************************************)

\* the limit sendSegmentedSummary gives the splitter
BodyLimit == 3200

\* the length above which handleTaskCompleted sends a summary in segments
SegmentThreshold == 3500

\* a limit small enough to go through every text around it
SmallLimit == 10

\* by how much the small texts exceed the limit
MaxTail == 2

SetMax(S) == CHOOSE m \in S : \A k \in S : k <= m

SetMin(S) == CHOOSE m \in S : \A k \in S : m <= k

EmptyText == [len |-> 0, marks |-> {}]

\* the texts of length len whose characters at the places in free are taken
\* from chars, and "x" elsewhere
TextsOver(len, free, chars) ==
  LET at == {q \in free : q < len}
  IN {[len |-> len, marks |-> {<<q, f[q]>> : q \in {k \in at : f[k] # "x"}}] :
        f \in [at -> chars]}

\* text.substring(from, to); a variant that drops a leading space
Substring_Trimmed(text, from, to) ==
  LET start == IF <<from, "sp">> \in text.marks THEN from + 1 ELSE from
  IN [len |-> to - start,
      marks |-> {<<m[1] - start, m[2]>> :
                   m \in {k \in text.marks : k[1] >= start /\ k[1] < to}}]

Substring(text, from, to) ==
  [len |-> to - from,
   marks |-> {<<m[1] - from, m[2]>> :
                m \in {k \in text.marks : k[1] >= from /\ k[1] < to}}]

\* a + b on strings
Concat(a, b) ==
  [len |-> a.len + b.len,
   marks |-> a.marks \cup {<<m[1] + a.len, m[2]>> : m \in b.marks}]

\* pat occurs in text at index i
OccursAt(text, pat, i) == \A k \in 1..Len(pat) : <<i + k - 1, pat[k]>> \in text.marks

\* text.lastIndexOf(pat)
LastIndexOf(text, pat) ==
  LET hits == {m[1] : m \in {k \in text.marks : OccursAt(text, pat, k[1])}}
  IN IF hits = {} THEN -1 ELSE SetMax(hits)

\* the breakPoints array of splitTextIntoSegments, in the order it is scanned
BreakPoints_WordFirst ==
  << <<"sp">>, <<"nl", "nl">>, <<"nl">>, <<"stop", "nl">>, <<"stop">> >>

BreakPoints ==
  << <<"nl", "nl">>, <<"nl">>, <<"stop", "nl">>, <<"stop">>, <<"sp">> >>

\* lastIndex > maxLength * 0.7 (0.7 * 10 and 0.7 * 3200 are exact in floating
\* point, and so is the comparison for the limits used here)
FarEnough(lastIndex, maxLength) == 10 * lastIndex > 7 * maxLength

\* one pass of the while loop: where the segment that starts at currentPos ends
BestBreakPoint(text, currentPos, maxLength) ==
  LET segmentEnd == currentPos + maxLength
      searchText == Substring(text, currentPos, segmentEnd)
      usable == {i \in 1..Len(BreakPoints) :
                   FarEnough(LastIndexOf(searchText, BreakPoints[i]), maxLength)}
  IN IF usable = {} THEN segmentEnd
     ELSE LET first == BreakPoints[SetMin(usable)]
          IN currentPos + LastIndexOf(searchText, first) + Len(first)

\* the while loop of splitTextIntoSegments from currentPos on
RECURSIVE SplitFrom(_, _, _)
SplitFrom(text, currentPos, maxLength) ==
  IF currentPos >= text.len THEN <<>>
  ELSE IF currentPos + maxLength >= text.len
       THEN <<Substring(text, currentPos, text.len)>>
       ELSE LET bestBreakPoint == BestBreakPoint(text, currentPos, maxLength)
            IN <<Substring(text, currentPos, bestBreakPoint)>>
                 \o SplitFrom(text, bestBreakPoint, maxLength)

\* splitTextIntoSegments(text, maxLength)
SplitTextIntoSegments(text, maxLength) ==
  IF text.len <= maxLength THEN <<text>> ELSE SplitFrom(text, 0, maxLength)

\* the texts given to the splitter with the small limit: every text of up to
\* MaxTail characters more than the limit over the four kinds of character
\* from a little before 70% of the limit on, and texts of three limits' length
\* with spaces and line feeds at the end of each window
SmallTexts(limit) ==
  UNION {TextsOver(len, (limit - 4)..(len - 1), {"x", "sp", "nl", "stop"}) :
           len \in (limit + 1)..(limit + MaxTail)}

LongTexts(limit) ==
  TextsOver(3 * limit - 2,
            {limit - 2, limit - 1, 2 * limit - 3, 2 * limit - 2, 2 * limit - 1,
             3 * limit - 5, 3 * limit - 4, 3 * limit - 3},
            {"x", "sp", "nl"})

\* the places of a long summary where a break decides a cut: at 70% of the
\* limit, at the two places after it, and at the end of the window, and the
\* like for the windows that follow
BreakPlaces == {2240, 2241, 2242, 3199, 4483, 5441, 6399, 6725}

\* the length of the statistics footer formatSummaryResponse appends, from
\* its "\n\n" and chart emoji on
FooterLengths == {150, 250}

\* the lengths of the responses handed to the delivery: one below the
\* threshold, one just above it, and a long one
ResponseLengths == {3400, 3600, 9000}

\* the responses formatSummaryResponse hands to the delivery: the body, and
\* the length of the footer
Documents(lengths) ==
  UNION {{[body |-> t, footer |-> f] :
            t \in TextsOver(full - f, BreakPlaces, {"x", "sp", "nl"})} :
           full \in lengths, f \in FooterLengths}

\* fullResponse.length
FullLength(doc) == doc.body.len + doc.footer

\* the messages of sendSegmentedSummary: one per segment, then the statistics
SegmentedMessages_NoStats(doc, segs) == [i \in 1..Len(segs) |-> "segment"]

SegmentedMessages(doc, segs) ==
  [i \in 1..Len(segs) |-> "segment"] \o (IF doc.footer > 0 THEN <<"stats">> ELSE <<>>)

\* a direct call of the splitter on one of the small texts; one call is
\* followed per behaviour
SplitTextIntoSegmentsCall ==
  /\ document.limit = 0
  /\ \E text \in SmallTexts(SmallLimit) \cup LongTexts(SmallLimit) :
       /\ document' = [body |-> text, footer |-> 0, limit |-> SmallLimit]
       /\ segments' = SplitTextIntoSegments(text, SmallLimit)
  /\ messages' = <<>>
  /\ UNCHANGED markdown
  /\ UNCHANGED <<qvars, avars, dvars, cvars, gvars>>

\* handleTaskCompleted on a formatted response: one message, or
\* sendSegmentedSummary, which splits the body
PlanDelivery ==
  /\ document.limit = 0
  /\ \E doc \in Documents(ResponseLengths) :
       /\ document' = [body |-> doc.body, footer |-> doc.footer, limit |-> BodyLimit]
       /\ IF FullLength(doc) > SegmentThreshold
          THEN LET segs == SplitTextIntoSegments(doc.body, BodyLimit)
               IN /\ segments' = segs
                  /\ messages' = SegmentedMessages(doc, segs)
          ELSE /\ segments' = <<>>
               /\ messages' = <<"single">>
  /\ UNCHANGED markdown
  /\ UNCHANGED <<qvars, avars, dvars, cvars, gvars>>

(***************************************************************************)
(* Markdown utilities (utils/markdown.js, and smartEscapeMarkdown of the   *)
(* TaskQueueHandler).  A text is the sequence of its characters.  The      *)
(* regular expressions are followed as the engine matches them: leftmost,  *)
(* greedy or lazy as written, the next match starting after the last one.  *)
(***************************************************************************)

\* the backtick, which a string of this notation cannot hold
Tick == "tick"

\* the characters the texts are made of: a letter, the five reserved
\* characters, what a link needs besides, a space and a line feed
MdAlphabet == {"a", "*", "_", Tick, "[", "]", "(", ")", "\\", " ", "\n"}

\* longest text of which every arrangement is tried
MaxText == 3

\* \s and [a-zA-Z0-9] on the characters in use
IsWhitespace(c) == c \in {" ", "\n"}

IsAlnum(c) == c \in {"a", "T", "P", "0", "1", "2"}

\* text.replace(/c/g, r) for a single character c
RECURSIVE ReplaceChar(_, _, _)
ReplaceChar(s, c, r) ==
  IF s = <<>> THEN <<>>
  ELSE (IF Head(s) = c THEN r ELSE <<Head(s)>>) \o ReplaceChar(Tail(s), c, r)

\* the first place of c in s at or after from, 0 if there is none
FirstAt(s, c, from) ==
  LET hits == {i \in from..Len(s) : s[i] = c}
  IN IF hits = {} THEN 0 ELSE SetMin(hits)

\* escapeMarkdown: the backslash first, then * _ ` [
EscapeMarkdown(text) ==
  ReplaceChar(ReplaceChar(ReplaceChar(ReplaceChar(ReplaceChar(text,
    "\\", <<"\\", "\\">>), "*", <<"\\", "*">>), "_", <<"\\", "_">>),
    Tick, <<"\\", Tick>>), "[", <<"\\", "[">>)

\* .replace(/\[([^\]]+)\]\([^\)]+\)/g, '$1'): a link becomes its text
RECURSIVE RemoveLinksFrom(_, _)
RemoveLinksFrom(s, i) ==
  IF i > Len(s) THEN <<>>
  ELSE LET j == IF s[i] = "[" THEN FirstAt(s, "]", i + 1) ELSE 0
           k == IF j > i + 1 /\ j < Len(s) /\ s[j + 1] = "("
                THEN FirstAt(s, ")", j + 2) ELSE 0
       IN IF k > j + 2
          THEN SubSeq(s, i + 1, j - 1) \o RemoveLinksFrom(s, k + 1)
          ELSE <<s[i]>> \o RemoveLinksFrom(s, i + 1)

\* .replace(/\#\#\#\#?\s/g, ''): a heading marker of three or four #
RECURSIVE RemoveHeadingsFrom(_, _)
RemoveHeadingsFrom(s, i) ==
  IF i > Len(s) THEN <<>>
  ELSE LET three == i + 2 <= Len(s) /\ s[i] = "#" /\ s[i + 1] = "#" /\ s[i + 2] = "#"
           n == IF ~three THEN 0
                ELSE IF i + 4 <= Len(s) /\ s[i + 3] = "#" /\ IsWhitespace(s[i + 4]) THEN 5
                ELSE IF i + 3 <= Len(s) /\ IsWhitespace(s[i + 3]) THEN 4
                ELSE 0
       IN IF n > 0 THEN RemoveHeadingsFrom(s, i + n)
          ELSE <<s[i]>> \o RemoveHeadingsFrom(s, i + 1)

\* stripMarkdown: * _ ` removed, links replaced by their text, heading
\* markers and > removed
StripMarkdown_KeepBackticks(text) ==
  LET bare == ReplaceChar(ReplaceChar(text, "*", <<>>), "_", <<>>)
  IN ReplaceChar(RemoveHeadingsFrom(RemoveLinksFrom(bare, 1), 1), ">", <<>>)

StripMarkdown(text) ==
  LET bare == ReplaceChar(ReplaceChar(ReplaceChar(text, "*", <<>>), "_", <<>>), Tick, <<>>)
  IN ReplaceChar(RemoveHeadingsFrom(RemoveLinksFrom(bare, 1), 1), ">", <<>>)

\* s with a backslash put before each of the places in at
RECURSIVE InsertBackslashes(_, _, _)
InsertBackslashes(s, at, i) ==
  IF i > Len(s) THEN <<>>
  ELSE (IF i \in at THEN <<"\\", s[i]>> ELSE <<s[i]>>) \o InsertBackslashes(s, at, i + 1)

\* preProcessMarkdown, step 1: /(?<=[a-zA-Z0-9])_(?=[a-zA-Z0-9])/g
EscapeInnerUnderscores(s) ==
  InsertBackslashes(s, {i \in 2..Len(s) - 1 :
                          s[i] = "_" /\ IsAlnum(s[i - 1]) /\ IsAlnum(s[i + 1])}, 1)

\* the places of c that no backslash precedes
Unescaped(s, c) == {i \in 1..Len(s) : s[i] = c /\ (i = 1 \/ s[i - 1] # "\\")}

IsLineStart(s, p) == p = 1 \/ s[p - 1] = "\n"

\* where the whitespace that begins at p ends
RECURSIVE WhitespaceEnd(_, _)
WhitespaceEnd(s, p) ==
  IF p <= Len(s) /\ IsWhitespace(s[p]) THEN WhitespaceEnd(s, p + 1) ELSE p

\* /^\s*\*\s/m tried at p: the place after the match, 0 if it fails
BulletEnd(s, p) ==
  LET q == WhitespaceEnd(s, p)
  IN IF IsLineStart(s, p) /\ q + 1 <= Len(s) /\ s[q] = "*" /\ IsWhitespace(s[q + 1])
     THEN q + 2 ELSE 0

\* (text.match(/^\s*\*\s/gm) || []).length
RECURSIVE BulletCountFrom(_, _)
BulletCountFrom(s, p) ==
  IF p > Len(s) THEN 0
  ELSE IF BulletEnd(s, p) > 0 THEN 1 + BulletCountFrom(s, BulletEnd(s, p))
  ELSE BulletCountFrom(s, p + 1)

\* step 2 for one of * _ `: with an odd number of unescaped occurrences (the
\* list bullets not counted for *), the last one is escaped
RepairEntity(s, c) ==
  LET un == Unescaped(s, c)
      count == Cardinality(un) - (IF c = "*" THEN BulletCountFrom(s, 1) ELSE 0)
  IN IF count > 0 /\ count % 2 # 0
     THEN LET last == SetMax(un)
              from == IF last - 10 < 1 THEN 1 ELSE last - 10
              to == IF last + 9 > Len(s) THEN Len(s) ELSE last + 9
          IN IF c # "*" \/ BulletCountFrom(SubSeq(s, from, to), 1) = 0
             THEN InsertBackslashes(s, {last}, 1)
             ELSE s
     ELSE s

\* step 3: /\*\`(.+?)\`\*/g and /\_\`(.+?)\`\_/g lose their outer marker
RECURSIVE CollapseNestedFrom(_, _, _)
CollapseNestedFrom(s, c, i) ==
  IF i > Len(s) THEN <<>>
  ELSE LET ends == IF i + 1 <= Len(s) /\ s[i] = c /\ s[i + 1] = Tick
                   THEN {m \in i + 3..Len(s) - 1 :
                           /\ s[m] = Tick /\ s[m + 1] = c
                           /\ \A x \in i + 2..m - 1 : s[x] # "\n"}
                   ELSE {}
       IN IF ends # {}
          THEN SubSeq(s, i + 1, SetMin(ends)) \o CollapseNestedFrom(s, c, SetMin(ends) + 2)
          ELSE <<s[i]>> \o CollapseNestedFrom(s, c, i + 1)

\* step 4: /\[([^\]]*?)$/ closes a [ that nothing closes before the end
CloseLastBracket(s) ==
  IF \E i \in 1..Len(s) : s[i] = "[" /\ \A x \in i + 1..Len(s) : s[x] # "]"
  THEN Append(s, "]") ELSE s

\* step 4: /^([^\[]*?)\]/m opens, at the start of its line, the first ] that
\* no [ precedes from a line start on
OpenFirstBracket(s) ==
  LET starts == {p \in 1..Len(s) :
                   /\ IsLineStart(s, p)
                   /\ \E q \in p..Len(s) : s[q] = "]" /\ \A x \in p..q - 1 : s[x] # "["}
  IN IF starts = {} THEN s
     ELSE SubSeq(s, 1, SetMin(starts) - 1) \o <<"[">>
          \o SubSeq(s, SetMin(starts), Len(s))

\* preProcessMarkdown
PreProcessMarkdown(text) ==
  IF text = <<>> THEN text
  ELSE LET s1 == EscapeInnerUnderscores(text)
           s2 == RepairEntity(RepairEntity(RepairEntity(s1, "*"), "_"), Tick)
           s3 == CollapseNestedFrom(CollapseNestedFrom(s2, "*", 1), "_", 1)
       IN OpenFirstBracket(CloseLastBracket(s3))

\* safeMarkdownProcess, replacements 1-3 for one of * _ `:
\* .replace(/([^\\])c([^c]*?)c/g, '$1\\c$2\\c')
RECURSIVE EscapePairsFrom(_, _, _)
EscapePairsFrom(s, c, i) ==
  IF i > Len(s) THEN <<>>
  ELSE LET j == IF i + 1 <= Len(s) /\ s[i] # "\\" /\ s[i + 1] = c
                THEN FirstAt(s, c, i + 2) ELSE 0
       IN IF j > 0
          THEN <<s[i], "\\", c>> \o SubSeq(s, i + 2, j - 1) \o <<"\\", c>>
               \o EscapePairsFrom(s, c, j + 1)
          ELSE <<s[i]>> \o EscapePairsFrom(s, c, i + 1)

\* replacement 4: .replace(/\[([^\]]*?)\]\([^\)]*?\)/g, '$1')
RECURSIVE RemoveAnyLinkFrom(_, _)
RemoveAnyLinkFrom(s, i) ==
  IF i > Len(s) THEN <<>>
  ELSE LET j == IF s[i] = "[" THEN FirstAt(s, "]", i + 1) ELSE 0
           k == IF j > 0 /\ j < Len(s) /\ s[j + 1] = "("
                THEN FirstAt(s, ")", j + 2) ELSE 0
       IN IF k > 0
          THEN SubSeq(s, i + 1, j - 1) \o RemoveAnyLinkFrom(s, k + 1)
          ELSE <<s[i]>> \o RemoveAnyLinkFrom(s, i + 1)

\* replacements 5 and 6 for [ and ]: .replace(/([^\\])c/g, '$1\\c')
RECURSIVE EscapeAfterFrom(_, _, _)
EscapeAfterFrom(s, c, i) ==
  IF i > Len(s) THEN <<>>
  ELSE IF i + 1 <= Len(s) /\ s[i] # "\\" /\ s[i + 1] = c
       THEN <<s[i], "\\", c>> \o EscapeAfterFrom(s, c, i + 2)
  ELSE <<s[i]>> \o EscapeAfterFrom(s, c, i + 1)

\* replacements 7-11 for one of * _ ` [ ]: .replace(/\\c/g, 'c')
RECURSIVE RestoreEscapedFrom(_, _, _)
RestoreEscapedFrom(s, c, i) ==
  IF i > Len(s) THEN <<>>
  ELSE IF i + 1 <= Len(s) /\ s[i] = "\\" /\ s[i + 1] = c
       THEN <<c>> \o RestoreEscapedFrom(s, c, i + 2)
  ELSE <<s[i]>> \o RestoreEscapedFrom(s, c, i + 1)

\* safeMarkdownProcess: the eleven replacements, then escapeMarkdown
SafeMarkdownProcess(text) ==
  IF text = <<>> THEN text
  ELSE LET s3 == EscapePairsFrom(EscapePairsFrom(EscapePairsFrom(text,
                   "*", 1), "_", 1), Tick, 1)
           s4 == RemoveAnyLinkFrom(s3, 1)
           s6 == EscapeAfterFrom(EscapeAfterFrom(s4, "[", 1), "]", 1)
           s11 == RestoreEscapedFrom(RestoreEscapedFrom(RestoreEscapedFrom(
                    RestoreEscapedFrom(RestoreEscapedFrom(s6,
                    "*", 1), "_", 1), Tick, 1), "[", 1), "]", 1)
       IN EscapeMarkdown(s11)

\* __TITLE_PLACEHOLDER_<k>__, the words shortened to their first letter
Placeholder(k) == <<"_", "_", "T", "_", "P", "_", <<"0", "1", "2">>[k + 1], "_", "_">>

\* /\*([^*\n]+)\*/ tried at i: the place of the closing *, 0 if it fails
TitleEnd(s, i) ==
  IF s[i] # "*" THEN 0
  ELSE LET stops == {m \in i + 1..Len(s) : s[m] \in {"*", "\n"}}
       IN IF stops # {} /\ SetMin(stops) > i + 1 /\ s[SetMin(stops)] = "*"
          THEN SetMin(stops) ELSE 0

\* the titles of a text, in order, as the pattern matches them
RECURSIVE TitlesFrom(_, _)
TitlesFrom(s, i) ==
  IF i > Len(s) THEN <<>>
  ELSE IF TitleEnd(s, i) > 0
       THEN <<SubSeq(s, i, TitleEnd(s, i))>> \o TitlesFrom(s, TitleEnd(s, i) + 1)
  ELSE TitlesFrom(s, i + 1)

\* the text with its titles replaced by the placeholders k, k + 1, ...
RECURSIVE WithPlaceholders(_, _, _)
WithPlaceholders(s, i, k) ==
  IF i > Len(s) THEN <<>>
  ELSE IF TitleEnd(s, i) > 0
       THEN Placeholder(k) \o WithPlaceholders(s, TitleEnd(s, i) + 1, k + 1)
  ELSE <<s[i]>> \o WithPlaceholders(s, i + 1, k)

\* a title as it is put back: its underscores escaped, its stars kept
EscapedTitle(title) == ReplaceChar(title, "_", <<"\\", "_">>)

\* text.replace(pattern, r) for a string pattern: the first occurrence only
ReplaceFirst(s, pattern, r) ==
  LET at == {i \in 1..Len(s) - Len(pattern) + 1 :
               SubSeq(s, i, i + Len(pattern) - 1) = pattern}
  IN IF at = {} THEN s
     ELSE SubSeq(s, 1, SetMin(at) - 1) \o r
          \o SubSeq(s, SetMin(at) + Len(pattern), Len(s))

\* titles.forEach((title, index) => finalText.replace(placeholder, title))
RECURSIVE RestoreTitles(_, _, _)
RestoreTitles(s, titles, k) ==
  IF k > Len(titles) THEN s
  ELSE RestoreTitles(ReplaceFirst(s, Placeholder(k - 1), EscapedTitle(titles[k])),
                     titles, k + 1)

\* smartEscapeMarkdown: the titles set aside, \\ _ ` [ escaped in what is
\* left, the titles put back
SmartEscapeMarkdown(text) ==
  IF text = <<>> THEN text
  ELSE LET held == WithPlaceholders(text, 1, 0)
           escaped == ReplaceChar(ReplaceChar(ReplaceChar(ReplaceChar(held,
                        "\\", <<"\\", "\\">>), "_", <<"\\", "_">>),
                        Tick, <<"\\", Tick>>), "[", <<"\\", "[">>)
       IN RestoreTitles(escaped, TitlesFrom(text, 1), 1)

\* every text of at most n characters
RECURSIVE MdTexts(_)
MdTexts(n) ==
  IF n = 0 THEN {<<>>}
  ELSE LET shorter == MdTexts(n - 1)
       IN shorter \cup {Append(s, c) : s \in {t \in shorter : Len(t) = n - 1},
                                       c \in MdAlphabet}

\* longer texts: the five reserved characters together, a link, a title with
\* an underscore in a sentence, a heading with a quotation
MdSamples(n) ==
  {<<"\\", "*", "_", Tick, "[">>,
   <<"[", "a", "]", "(", "a", ")">>,
   <<"*", "a", "_", "a", "*", " ", "a", "_", "a">>,
   <<"#", "#", "#", " ", "a", "\n", ">", "a">>,
   <<"*", "a", "*", "\n", "*", "a", "*">>}

NoMarkdown == [op |-> "none", input |-> <<>>, escaped |-> <<>>, output |-> <<>>]

\* stripMarkdown(escapeMarkdown(text))
EscapeThenStrip ==
  /\ markdown.op = "none"
  /\ \E text \in MdTexts(MaxText) \cup MdSamples(MaxText) :
       markdown' = [op |-> "strip", input |-> text, escaped |-> EscapeMarkdown(text),
                    output |-> StripMarkdown(EscapeMarkdown(text))]
  /\ UNCHANGED <<document, segments, messages>>
  /\ UNCHANGED <<qvars, avars, dvars, cvars, gvars>>

\* preProcessMarkdown(escapeMarkdown(text))
EscapeThenPreProcess ==
  /\ markdown.op = "none"
  /\ \E text \in MdTexts(MaxText) \cup MdSamples(MaxText) :
       markdown' = [op |-> "repair", input |-> text, escaped |-> EscapeMarkdown(text),
                    output |-> PreProcessMarkdown(EscapeMarkdown(text))]
  /\ UNCHANGED <<document, segments, messages>>
  /\ UNCHANGED <<qvars, avars, dvars, cvars, gvars>>

\* smartEscapeMarkdown(text)
SmartEscape ==
  /\ markdown.op = "none"
  /\ \E text \in MdTexts(MaxText) \cup MdSamples(MaxText) :
       markdown' = [op |-> "smart", input |-> text, escaped |-> <<>>,
                    output |-> SmartEscapeMarkdown(text)]
  /\ UNCHANGED <<document, segments, messages>>
  /\ UNCHANGED <<qvars, avars, dvars, cvars, gvars>>

\* the fixed parts of a response, each written as one character that is
\* neither reserved nor a letter, a digit or a space: the two emoji, the two
\* headings, the statistics lines and the cooldown notice
HeaderIcon == "clipboard"

HeaderWord == "heading"

StatsIcon == "chart"

StatsWord == "statistics"

StatsLines == "counts"

CooldownNotice == "cooldown"

\* the statistics and the cooldown notice that end every response
Footer(star) ==
  <<StatsIcon, " ">> \o star \o <<StatsWord>> \o star
  \o <<"\n", StatsLines, "\n", "\n", CooldownNotice>>

\* formatSummaryResponse(summaryResult, false, escape)
FormatSummaryResponse(summary, escape) ==
  <<HeaderIcon, " ", "*", HeaderWord, "*", "\n", "\n">>
  \o (IF escape THEN SmartEscapeMarkdown(summary) ELSE summary)
  \o <<"\n", "\n">> \o Footer(<<"*">>)

\* formatPlainTextResponse(summaryResult, false)
FormatPlainTextResponse(summary) ==
  <<HeaderIcon, " ", HeaderWord, "\n", "\n">>
  \o StripMarkdown(summary) \o <<"\n", "\n">> \o Footer(<<>>)

\* response.split('\n\n' + the statistics emoji)[0]
BeforeStats(response) ==
  LET at == {i \in 1..Len(response) - 2 :
               SubSeq(response, i, i + 2) = <<"\n", "\n", StatsIcon>>}
  IN IF at = {} THEN response ELSE SubSeq(response, 1, SetMin(at) - 1)

\* the representations sendSingleSummary tries, in order
RepresentationKinds == <<"native", "escaped", "safe", "plain">>

\* what sendSingleSummary sends as the representation of that kind
Representation(kind, response) ==
  IF kind = "native" THEN response
  ELSE IF kind = "escaped" THEN FormatSummaryResponse(BeforeStats(response), TRUE)
  ELSE IF kind = "safe"
       THEN FormatSummaryResponse(SafeMarkdownProcess(BeforeStats(response)), FALSE)
  ELSE FormatPlainTextResponse(BeforeStats(response))

\* handleTaskCompleted formats the summary and sendSingleSummary delivers it:
\* Telegram refuses the first `refusals` representations ("can't parse
\* entities") and takes the next one
SendSingleSummary(refusals) ==
  /\ markdown.op = "none"
  /\ \E text \in MdTexts(MaxText) \cup MdSamples(MaxText) :
       LET response == FormatSummaryResponse(PreProcessMarkdown(text), FALSE)
           kind == RepresentationKinds[refusals + 1]
       IN markdown' = [op |-> kind, input |-> text, escaped |-> response,
                       output |-> Representation(kind, response)]
  /\ UNCHANGED <<document, segments, messages>>
  /\ UNCHANGED <<qvars, avars, dvars, cvars, gvars>>

SInit ==
  /\ document = [body |-> EmptyText, footer |-> 0, limit |-> 0]
  /\ segments = <<>>
  /\ messages = <<>>
  /\ markdown = NoMarkdown

DInit ==
  /\ restricted = [c \in Chats |-> 0]
  /\ delivery = [s \in Slots |-> IdleDelivery]
  /\ dCount = 0

QInit ==
  /\ queue = <<>>
  /\ processing = FALSE
  /\ currentTask = NoTask
  /\ taskStatus = {}
  /\ taskResults = [j \in JobIds |-> "none"]
  /\ status = [j \in JobIds |-> "none"]
  /\ timers = [j \in JobIds |-> 0]
  /\ nextId = 1
  /\ jobInput = [j \in JobIds |-> "fits"]
  /\ loopPc = [j \in JobIds |-> "none"]
  /\ outcome = [j \in JobIds |-> "none"]
  /\ attempts = [j \in JobIds |-> <<>>]
  /\ events = <<>>
  /\ handled = [j \in JobIds |-> 0]
  /\ enqueued = <<>>
  /\ azureInit = FALSE

AInit ==
  /\ aiInit = FALSE
  /\ primaryClient = FALSE
  /\ fallbackClient = FALSE
  /\ gpc = "idle"
  /\ gCaller = "direct"
  /\ gCallNo = 0
  /\ gLog = <<>>
  /\ gPrimaryError = "none"
  /\ gResult = NoResult
  /\ sResult = NoSummary

CInit ==
  /\ store = <<>>
  /\ statsCache = NoStats
  /\ summaryCache = {}
  /\ cooldown = {}
  /\ command = IdleCommand
  /\ answer = [kind |-> "none", key |-> NoKey, job |-> NoTask]
  /\ requests = 0
  /\ jobData = [j \in JobIds |-> NoData]
  /\ anchors = [j \in JobIds |-> "none"]
  /\ flushes = 0

(***************************************************************************)
(* Middleware: duplicateGuard and rateLimiter (bot.js installs them in     *)
(* this order in front of every handler)                                   *)
(***************************************************************************)
\* the cleanup timer acts when more than this many update ids are recorded
KeepThreshold == 1000

\* and then keeps this many of the most recently recorded ids
KeepCount == 500

\* the update ids whose way through the guard is followed
FollowedIds == {1, 2}

\* the largest update id Telegram hands out in the model
MaxUpdateId == 1002

\* processedUpdates.has(updateId)
Recorded_Never(processed, updateId) == FALSE

Recorded(processed, updateId) ==
  \E i \in 1..Len(processed) : processed[i] = updateId

\* updates.slice(-n)
LastOf(s, n) ==
  IF Len(s) <= n THEN s ELSE SubSeq(s, Len(s) - n + 1, Len(s))

\* what the cleanup timer of duplicateGuard leaves of the recorded ids
CleanupKept(processed) ==
  IF Len(processed) > KeepThreshold THEN LastOf(processed, KeepCount)
  ELSE processed

\* duplicateGuard(ctx, next) for an update with a (positive) update_id
DuplicateGuard(updateId) ==
  IF Recorded(processedUpdates, updateId)
  THEN UNCHANGED <<processedUpdates, passes>>
  ELSE /\ processedUpdates' = Append(processedUpdates, updateId)
       /\ passes' = [id \in FollowedIds |->
                       IF id = updateId THEN passes[id] + 1 ELSE passes[id]]

\* Telegram delivers a new update
NewUpdate ==
  /\ freshId <= MaxUpdateId
  /\ DuplicateGuard(freshId)
  /\ freshId' = freshId + 1
  /\ UNCHANGED <<drops, userRequests, now, clockSteps, passedAt, refused>>
  /\ UNCHANGED <<qvars, avars, dvars, svars, cvars>>

\* an update that was delivered before arrives again
Redelivery(updateId) ==
  /\ updateId < freshId
  /\ DuplicateGuard(updateId)
  /\ UNCHANGED <<freshId, drops, userRequests, now, clockSteps, passedAt, refused>>
  /\ UNCHANGED <<qvars, avars, dvars, svars, cvars>>

\* the five-minute cleanup timer of duplicateGuard fires
GuardCleanupTimer ==
  /\ processedUpdates' = CleanupKept(processedUpdates)
  /\ drops' = [id \in FollowedIds |->
                 IF /\ Recorded(processedUpdates, id)
                    /\ ~Recorded(CleanupKept(processedUpdates), id)
                 THEN drops[id] + 1 ELSE drops[id]]
  /\ UNCHANGED <<freshId, passes, userRequests, now, clockSteps, passedAt, refused>>
  /\ UNCHANGED <<qvars, avars, dvars, svars, cvars>>

\* RATE_LIMIT
RateLimit == 10

\* TIME_WINDOW, in milliseconds
TimeWindow == 60 * 1000

\* the updates one user sends in the model
MaxUpdates == 12

\* the advances of the clock in the model, and their lengths
MaxClockSteps == 3

ClockSteps == {1, TimeWindow - 1, TimeWindow}

\* userRequests has no entry for the user
NoEntry == [has |-> FALSE, count |-> 0, resetTime |-> 0]

\* rateLimiter's middleware for an update of the user (ctx.from.id is set)
RateLimiter ==
  /\ Len(passedAt) + refused < MaxUpdates
  /\ IF ~userRequests.has \/ now >= userRequests.resetTime
     THEN /\ userRequests' = [has |-> TRUE, count |-> 1,
                              resetTime |-> now + TimeWindow]
          /\ passedAt' = Append(passedAt, now)
          /\ UNCHANGED refused
     ELSE IF userRequests.count >= RateLimit
          THEN /\ refused' = refused + 1
               /\ UNCHANGED <<userRequests, passedAt>>
          ELSE /\ userRequests' = [userRequests EXCEPT !.count = @ + 1]
               /\ passedAt' = Append(passedAt, now)
               /\ UNCHANGED refused
  /\ UNCHANGED <<processedUpdates, freshId, passes, drops, now, clockSteps>>
  /\ UNCHANGED <<qvars, avars, dvars, svars, cvars>>

\* the five-minute cleanup interval of rateLimiter deletes an expired entry
LimiterCleanup ==
  /\ userRequests' = IF userRequests.has /\ now >= userRequests.resetTime
                     THEN NoEntry ELSE userRequests
  /\ UNCHANGED <<processedUpdates, freshId, passes, drops, now, clockSteps,
                 passedAt, refused>>
  /\ UNCHANGED <<qvars, avars, dvars, svars, cvars>>

\* time passes
Advance(d) ==
  /\ clockSteps < MaxClockSteps
  /\ now' = now + d
  /\ clockSteps' = clockSteps + 1
  /\ UNCHANGED <<processedUpdates, freshId, passes, drops, userRequests,
                 passedAt, refused>>
  /\ UNCHANGED <<qvars, avars, dvars, svars, cvars>>

GInit ==
  /\ processedUpdates = <<>>
  /\ freshId = 1
  /\ passes = [id \in FollowedIds |-> 0]
  /\ drops = [id \in FollowedIds |-> 0]
  /\ userRequests = NoEntry
  /\ now = 0
  /\ clockSteps = 0
  /\ passedAt = <<>>
  /\ refused = 0

Init == QInit /\ AInit /\ DInit /\ SInit /\ CInit /\ GInit

Next ==
  \/ \E input \in JobInputs : AddSummaryTask(input)
  \/ \E j \in JobIds, reply \in AzureReplies : AzureResponds(j, reply)
  \/ \E j \in JobIds : SettleTask(j)
  \/ \E j \in JobIds : LoopContinue(j)
  \/ \E j \in JobIds : EvictResult(j)
  \/ \E e \in BOOLEAN : AzureInit(e)

Spec == Init /\ [][Next]_vars

ANext ==
  \/ \E p, f \in BOOLEAN : AIServiceInit(p, f)
  \/ \E caller \in Callers, input \in JobInputs : GenerateStart(caller, input)
  \/ \E content \in RawTexts : PrimaryReturns(content)
  \/ \E e \in Errors : PrimaryThrows(e)
  \/ \E content \in RawTexts : FallbackReturns(content)
  \/ \E e \in Errors : FallbackThrows(e)
  \/ SummarizeFinish

SpecAI == Init /\ [][ANext]_vars

\* the handler calls one after the other
DNext ==
  \/ \E c \in Chats, n \in {0} \cup SegmentCounts, a \in BOOLEAN :
       HandleTaskCompleted(1, c, n, a, 1)
  \/ \E c \in Chats, a \in BOOLEAN : HandleTaskFailed(1, c, a, "other")
  \/ \E o \in SendOutcomes : SendSettles(1, o)
  \/ RetryFires(1)
  \/ PacingElapses(1)
  \/ \E c \in Chats : ExpireRestriction(c)

SpecDelivery == Init /\ [][DNext]_vars

\* two deliveries of short summaries to one chat in progress at once
ONext ==
  \/ \E s \in Slots : HandleTaskCompleted(s, 1, 0, TRUE, 1)
  \/ \E s \in Slots, o \in {"ok", "markup", "permission"} : SendSettles(s, o)

SpecOverlap == Init /\ [][ONext]_vars

\* the deliveries to one chat, one after the other: short and segmented
\* summaries, and the failures of every kind
MaxSegments == 3

UNext ==
  \/ \E n \in 0..MaxSegments, a \in BOOLEAN, c \in Counts :
       HandleTaskCompleted(1, 1, n, a, c)
  \/ \E a \in BOOLEAN, f \in JobFailures : HandleTaskFailed(1, 1, a, f)
  \/ \E o \in SendOutcomes : SendSettles(1, o)
  \/ RetryFires(1)
  \/ PacingElapses(1)
  \/ ExpireRestriction(1)

SpecNotices == Init /\ [][UNext]_vars

\* the splitter on every text of the input sets
SNext ==
  \/ SplitTextIntoSegmentsCall
  \/ PlanDelivery

SpecSplit == Init /\ [][SNext]_vars

\* the /summary command in front of the queue: messages arrive, commands are
\* answered from the cache or enqueue a job, jobs settle, cache entries expire
CNext ==
  \/ \E a \in Users : StoreMessage(a)
  \/ \E u \in Requesters, n \in RequestedCounts : SummaryCommand(u, n)
  \/ CommandLookup
  \/ CommandEnqueue("fits")
  \/ \E j \in JobIds : AnchorStored(j) \/ EditThrows(j) \/ ExpireAnchor(j)
  \/ \E j \in JobIds, r \in {"content", "throws"} : AzureResponds(j, r)
  \/ \E j \in JobIds : SettleTask(j) \/ LoopContinue(j)
  \/ AzureInit(TRUE)
  \/ ExpireStats
  \/ \E k \in summaryCache : ExpireSummary(k)
  \/ \E u \in Requesters : ExpireCooldown(u)

SpecCommand == Init /\ [][CNext]_vars

\* the Markdown utilities applied to a text
MNext ==
  \/ EscapeThenStrip
  \/ EscapeThenPreProcess
  \/ SmartEscape
  \/ \E refusals \in 0..3 : SendSingleSummary(refusals)

SpecMarkdown == Init /\ [][MNext]_vars

\* deliveries to two chats with the admin's cache clearing around them
FNext ==
  \/ \E c \in Chats : HandleTaskCompleted(1, c, 0, TRUE, 1)
  \/ \E c \in Chats : HandleTaskFailed(1, c, TRUE, "other")
  \/ \E o \in SendOutcomes : SendSettles(1, o)
  \/ RetryFires(1)
  \/ \E c \in Chats : ExpireRestriction(c)
  \/ ClearAllCache
  \/ \E c \in Chats : ClearChatCache(c)

SpecFlags == Init /\ [][FNext]_vars

\* new and repeated updates and the cleanup timer of duplicateGuard
GNext ==
  \/ NewUpdate
  \/ \E id \in FollowedIds : Redelivery(id)
  \/ GuardCleanupTimer

SpecGuard == Init /\ [][GNext]_vars

\* the updates of one user over time, and the cleanup interval of rateLimiter
LNext ==
  \/ RateLimiter
  \/ LimiterCleanup
  \/ \E d \in ClockSteps : Advance(d)

SpecLimiter == Init /\ [][LNext]_vars

\* the drain loop is never starved: the event loop runs every pending
\* continuation, and every backend call returns or throws
FairSpec ==
  /\ Spec
  /\ WF_vars(\E j \in JobIds, reply \in AzureReplies : AzureResponds(j, reply))
  /\ WF_vars(\E j \in JobIds : SettleTask(j))
  /\ WF_vars(\E j \in JobIds : LoopContinue(j))

\* the timers of setTaskResult fire as well
FairTimers ==
  /\ FairSpec
  /\ \A j \in JobIds : WF_vars(EvictResult(j))

(***************************************************************************)
(* Properties of the task queue                                            *)
(***************************************************************************)

Final == {"completed", "failed"}

ActiveLoops == {j \in JobIds : loopPc[j] # "none"}

EventsOf(j) == {i \in 1..Len(events) : events[i].id = j}

\* C1: at most one job is in the processing state and at most one drain loop
\* is running at any time; an addSummaryTask call made while a loop is
\* draining only appends the new job, as queued, and starts no second loop.
C1_SingleDrainLoop ==
  /\ [](Cardinality({j \in JobIds : status[j] = "processing"}) <= 1)
  /\ [](Cardinality(ActiveLoops) <= 1)
  /\ [][(processing /\ nextId' = nextId + 1) =>
          /\ queue' = Append(queue, nextId)
          /\ status' = [status EXCEPT ![nextId] = "queued"]
          /\ loopPc' = loopPc
          /\ currentTask' = currentTask]_vars

C1_Witness ==
  \E j, k \in JobIds :
    /\ status[j] = "processing"
    /\ status[k] = "queued"
    /\ processing
    /\ queue = <<k>>

\* C2: the outcome events are emitted in the order of the addSummaryTask
\* calls: the ids of the events emitted so far are a prefix of the ids in
\* enqueue order.
C2_FifoOutcomes ==
  /\ Len(events) <= Len(enqueued)
  /\ \A i \in 1..Len(events) : events[i].id = enqueued[i]

C2_Witness ==
  /\ Len(events) >= 3
  /\ \E i, k \in 1..Len(events) :
       events[i].type = "taskCompleted" /\ events[k].type = "taskFailed"

\* C3: a job has no outcome event before it is settled and exactly one once
\* it is completed or failed, of the type of its status; every event was
\* handed to the delivery handler exactly once.
C3_ExactlyOneOutcome ==
  \A j \in JobIds :
    /\ Cardinality(EventsOf(j)) <= 1
    /\ handled[j] = Cardinality(EventsOf(j))
    /\ (status[j] \in Final) = (EventsOf(j) # {})
    /\ \A i \in EventsOf(j) :
         events[i].type = IF status[j] = "completed" THEN "taskCompleted" ELSE "taskFailed"

C3_Witness ==
  \E j, k \in JobIds :
    /\ status[j] = "completed" /\ handled[j] = 1
    /\ status[k] = "failed" /\ handled[k] = 1

\* C4: under FairSpec every job that is queued or processing eventually is
\* completed or failed.
C4_EveryJobFinishes ==
  \A j \in JobIds : (status[j] \in {"queued", "processing"}) ~> (status[j] \in Final)

C4_Witness ==
  \E j \in JobIds :
    /\ j > 1
    /\ status[j] \in Final
    /\ loopPc[j] = "looping"
    /\ queue # <<>>

\* C5: a job whose summarization raised is recorded as failed with a failure
\* result, and the drain loop goes on: whenever jobs are waiting in the queue
\* a drain loop is running.
C5_FailureDoesNotStopDrain ==
  /\ \A j \in JobIds :
       (outcome[j] \notin {"none", "ok"} /\ loopPc[j] # "settled") =>
          /\ status[j] = "failed"
          /\ (timers[j] > 0 => taskResults[j] = "failure")
  /\ (queue # <<>> => ActiveLoops # {})
  /\ (ActiveLoops # {} => processing)

C5_Witness ==
  \E j, k \in JobIds :
    /\ j < k
    /\ status[j] = "failed"
    /\ outcome[j] = "provider"
    /\ status[k] = "completed"
    /\ queue # <<>>

\* the jobs whose chat-completion call returned a text cut off mid-stream
CutJobs == {j \in JobIds : \E i \in 1..Len(attempts[j]) : attempts[j][i].text = "cut"}

\* completion texts cut off inside an array value
CutInArray ==
  {r \in RawTexts : r.cutAt > 0 /\ r.val.f[FieldNames[r.cutAt]] = "arr"}

\* C11: a job whose provider call returned a text cut off mid-stream is never
\* failed and gets no failure event: once settled it is completed, with a
\* completion event and a success result; and the parsing steps of
\* AIService.summarizeMessages turn every text cut inside an array (such as
\* discussion_points) into a document with a non-empty body.
C11_TruncatedStillCompletes ==
  /\ \A j \in CutJobs :
       /\ status[j] # "failed"
       /\ \A i \in EventsOf(j) : events[i].type = "taskCompleted"
       /\ loopPc[j] \in {"looping", "none"} =>
             /\ status[j] = "completed"
             /\ EventsOf(j) # {}
  /\ \A r \in CutInArray :
       /\ Normalize(r).kind = "doc"
       /\ Normalize(r).body \in {"extracted", "reconstructed", "textdump", "apology"}

C11_Witness ==
  \E j \in CutJobs :
    /\ status[j] = "completed"
    /\ \E i \in EventsOf(j) : events[i].type = "taskCompleted"
    /\ \E r \in CutInArray : r.cutAt = 3

\* the moves of task.status; a task added to an idle queue is created as
\* queued and dequeued in the same synchronous call of addSummaryTask
Lifecycle ==
  {<<"none", "queued">>, <<"none", "processing">>, <<"queued", "processing">>,
   <<"processing", "completed">>, <<"processing", "failed">>}

InQueue == {queue[i] : i \in 1..Len(queue)}

\* C29: the status of a job only moves queued -> processing -> completed or
\* failed: a queued job is in the queue and a processing one has left it, and
\* a completed or failed status never changes.
C29_StatusLifecycle ==
  /\ [](\A j \in JobIds :
          /\ status[j] = "queued" <=> j \in InQueue
          /\ status[j] = "processing" => j \notin InQueue /\ loopPc[j] # "none")
  /\ [][\A j \in JobIds :
          status'[j] # status[j] => <<status[j], status'[j]>> \in Lifecycle]_vars

C29_Witness ==
  \E j, k, q \in JobIds :
    /\ status[j] = "completed"
    /\ status[k] = "failed"
    /\ status[q] = "queued" /\ q \in InQueue

\* C30: a stored result and the status entry of its job are removed when the
\* timer set on storing fires, whoever read it; a status entry that stays is
\* that of a job still queued or processing or within its retention window.
C30_ResultsEvicted ==
  /\ [](\A j \in JobIds :
          /\ taskResults[j] # "none" => timers[j] > 0
          /\ j \in taskStatus => status[j] \in {"queued", "processing"} \/ timers[j] > 0)
  /\ \A j \in JobIds :
       (taskResults[j] # "none") ~> (taskResults[j] = "none" /\ j \notin taskStatus)

C30_Witness ==
  \E j \in JobIds :
    /\ status[j] \in Final
    /\ taskResults[j] = "none"
    /\ j \notin taskStatus
    /\ timers[j] = 0

(***************************************************************************)
(* Properties of the AI service                                            *)
(***************************************************************************)

CallsTo(backend) == {i \in 1..Len(gLog) : gLog[i].backend = backend}

\* the failures a model can answer an attempt with
Failures == Errors \cup {"unconfigured"}

\* the error the primary attempt of this call raised: the one its
\* chat.completions.create threw, or the not-configured error
PrimaryRaised == {gLog[i].outcome : i \in CallsTo("primary")} \cap Failures

FallbackRaised == {gLog[i].outcome : i \in CallsTo("fallback")} \cap Errors

\* C6: each call makes at most one request to each model, the primary one
\* first whenever it is configured, and the fallback one only after the
\* primary attempt raised; a new call starts the same way whatever the
\* previous call returned or threw.
C6_PrimaryFirstOnce ==
  /\ [](/\ Cardinality(CallsTo("primary")) <= 1
        /\ Cardinality(CallsTo("fallback")) <= 1
        /\ \A i \in CallsTo("fallback") :
             /\ gPrimaryError # "none"
             /\ \E k \in CallsTo("primary") : k < i /\ gLog[k].outcome \in Failures)
  /\ [][(gCallNo' = gCallNo + 1 /\ gLog' # <<>>) => gLog'[1].backend = "primary"]_vars

C6_Witness ==
  /\ gCallNo = 2
  /\ Len(gLog) = 2
  /\ gLog[1].backend = "primary" /\ gLog[1].outcome \in Errors
  /\ gLog[2].backend = "fallback" /\ gLog[2].outcome = "ok"

\* C7: a call of the initialised service throws only when the primary
\* attempt raised and the fallback model did not answer (it raised, or none
\* is configured); when the primary raised and the fallback answered, the
\* call returns the fallback's completion tagged 'fallback'; when the primary
\* answered, it returns the primary's completion tagged 'primary'.
C7_FailsOnlyIfBothFail ==
  /\ (gResult.kind = "throw" /\ gResult.msg # "uninitialized") =>
        /\ PrimaryRaised # {}
        /\ \A i \in CallsTo("fallback") : gLog[i].outcome \in Errors
        /\ fallbackClient => FallbackRaised # {}
  /\ \A i \in CallsTo("fallback") :
        gLog[i].outcome = "ok" =>
          /\ gResult.kind = "return"
          /\ gResult.modelUsed = "fallback"
          /\ gResult.content = gLog[i].content
          /\ gResult.msg # "all_failed"
  /\ \A i \in CallsTo("primary") :
        gLog[i].outcome = "ok" =>
          /\ gResult.kind = "return"
          /\ gResult.modelUsed = "primary"
          /\ gResult.content = gLog[i].content

C7_Witness ==
  /\ gResult.kind = "return"
  /\ gResult.modelUsed = "fallback"
  /\ PrimaryRaised \cap Errors # {}

\* the fallback model failed this call: its chat.completions.create threw, or
\* the call ended at the missing fallback client
FallbackFailed ==
  \/ FallbackRaised # {}
  \/ (gpc = "done" /\ gLog # <<>> /\ ~fallbackClient)

\* C8: whenever both models failed a call, the error it throws is the
\* composite one and carries the primary's error as primaryError and, when
\* the fallback's chat.completions.create threw, that error as fallbackError.
C8_CompositeKeepsBoth ==
  (PrimaryRaised # {} /\ FallbackFailed) =>
     /\ gResult.kind = "throw"
     /\ gResult.msg = "all_failed"
     /\ gResult.primaryError \in PrimaryRaised
     /\ FallbackRaised # {} => gResult.fallbackError \in FallbackRaised

\* C9: a job is failed because of the provider only when both backends
\* failed, the summarization of every job trying the primary backend first.
C9_JobFailsOnlyIfBothBackendsFail ==
  \A j \in JobIds :
    /\ (status[j] = "failed" /\ outcome[j] = "provider") =>
          /\ \E i \in 1..Len(attempts[j]) :
               attempts[j][i].backend = "primary" /\ ~attempts[j][i].ok
          /\ \E i \in 1..Len(attempts[j]) :
               attempts[j][i].backend = "secondary" /\ ~attempts[j][i].ok
    /\ attempts[j] # <<>> => attempts[j][1].backend = "primary"

\* C10: the parsing and formatting steps of summarizeMessages never raise:
\* once a completion text has arrived, summarizeMessages returns a document.
C10_NormalizeNeverRaises ==
  (gCaller = "summarize" /\ gResult.kind = "return" /\ gpc = "done") =>
     sResult.kind = "doc"

\* position of a recovery step in the fixed order
StepRank(step) ==
  CASE step = "strict" -> 1 [] step = "cleanup" -> 2 [] step = "repair" -> 3
    [] OTHER -> 4

StepsOf(r) == {r.steps[i] : i \in 1..Len(r.steps)}

C13_RecoveredFlag ==
  (gCaller = "summarize" /\ gpc = "done" /\ sResult.kind = "doc") =>
     ((RecoveredFlag(sResult) = "true") <=> (sResult.tier >= 3))

\* the five structured fields of a parsed document are all there, lists as
\* lists and texts as texts
StructuredFieldsPresent(v) ==
  /\ v.t = "obj"
  /\ v.f.main_topics = "arr" /\ v.f.discussion_points = "arr"
  /\ \A n \in {"activity_analysis", "special_events", "other_notes"} : v.f[n] = "str"

\* C14: when the strict parse or the cleanup parse succeeded and the
\* structured fields are present, the body of the document is rebuilt from
\* the fields under the fixed section headers, not the provider's own
\* formatted_summary.
C14_BodyRebuiltFromFields ==
  (/\ gCaller = "summarize" /\ gpc = "done" /\ gResult.kind = "return"
   /\ sResult.tier \in {1, 2}
   /\ StructuredFieldsPresent(gResult.content.val)) =>
     /\ sResult.kind = "doc"
     /\ sResult.body = "rebuilt"

(***************************************************************************)
(* Properties of the delivery handler                                      *)
(***************************************************************************)

Notices == {"net_notice", "content_notice", "fallback_notice", "error_notice"}

Representations == <<"native", "escaped", "safe", "plain">>

RepRank(step) ==
  CASE step = "native" -> 1 [] step = "escaped" -> 2 [] step = "safe" -> 3
    [] step = "plain" -> 4 [] OTHER -> 0

\* the sends of a handler call that ended in a failure of the given class
FailedSends(r, class) == {i \in 1..Len(r.log) : r.log[i].outcome = class}

\* C15: a handleTaskCompleted or handleTaskFailed call never rejects: whatever
\* the outcomes of its Telegram calls, once it has ended its promise is
\* resolved.
C15_HandlersNeverReject ==
  \A s \in Slots :
    /\ delivery[s].resolved # "rejected"
    /\ delivery[s].state = "done" => delivery[s].resolved = "resolved"

C15_Witness ==
  \E s \in Slots :
    LET r == delivery[s]
    IN /\ r.state = "done"
       /\ r.kind = "completed"
       /\ Len(r.log) >= 2
       /\ r.log[Len(r.log)].step \in Notices
       /\ r.log[Len(r.log)].outcome \in {"network", "other", "content", "markup"}

\* C16: no Telegram call is issued by a handler for a chat while the chat is
\* flagged send-restricted.
C16_NoCallWhileRestricted ==
  \A s \in Slots : ~delivery[s].flaggedCall

\* C17: when a send of a delivery failed with a missing-send-right error, the
\* chat is flagged send-restricted when the delivery ends.
C17_PermissionErrorSetsFlag ==
  \A s \in Slots :
    (delivery[s].state = "done" /\ FailedSends(delivery[s], "permission") # {}) =>
       delivery[s].endFlag

\* C18: in the delivery of a short summary a representation is sent only
\* right after the one before it failed with a markup-parse error.
C18_EscalationOnlyOnMarkupError ==
  \A s \in Slots :
    LET r == delivery[s]
    IN \A i \in 2..Len(r.log) :
         RepRank(r.log[i].step) > 0 =>
           /\ r.log[i - 1].outcome = "markup"
           /\ RepRank(r.log[i].step) = RepRank(r.log[i - 1].step) + 1

\* C19: the notice that replaces the summary after a markup-parse error is
\* sent only after the native, escaped, sanitized and plain-text
\* representations have all been sent and have failed.
C19_MarkupNoticeAfterAllRepresentations ==
  \A s \in Slots :
    LET r == delivery[s]
    IN r.cause = "markup" =>
         \A k \in 1..4 :
           \E i \in 1..Len(r.log) :
             r.log[i].step = Representations[k] /\ r.log[i].outcome # "ok"

\* C20: every send that ended in a network failure was called four times,
\* with delays of 1, 2 and 4 seconds between the calls.
C20_NetworkFailureAfterRetries ==
  \A s \in Slots :
    LET r == delivery[s]
    IN \A i \in FailedSends(r, "network") :
         /\ r.log[i].calls = MaxRetries + 1
         /\ r.log[i].delays = <<1000, 2000, 4000>>

\* the deliveries that have returned
Ended == {s \in Slots : delivery[s].state = "done"}

\* the deliveries between their first Telegram call and their return
Running == {s \in Slots : delivery[s].state \in {"inflight", "delay", "pacing"}}

\* C21: when a job failed because the provider refused the content, the text
\* that replaces the placeholder is the fixed content-policy notice.
C21_ContentPolicyNotice ==
  \A s \in Slots :
    LET r == delivery[s]
    IN (r.kind = "failed" /\ r.failure = "policy" /\ r.shown # "placeholder") =>
          r.shown = "content_notice"

\* C22: when the delivery of a completed summary fails with an error that is
\* not a permission, network or content-policy error, the next and last call
\* of the handler is the edit of the placeholder with the apology, and the
\* text it leaves names /summary N with N the message count of the job.
C22_OtherFailureEditsWithRerunCommand ==
  \A s \in Slots :
    LET r == delivery[s]
        last == r.log[Len(r.log)]
    IN (r.kind = "completed" /\ r.cause \in {"markup", "other"}) =>
          /\ r.state \in {"inflight", "done"}
          /\ r.state = "inflight" => r.step = "fallback_notice" /\ r.attempt = 0
          /\ r.state = "done" => last.step = "fallback_notice"
          /\ (r.state = "done" /\ last.outcome = "ok") =>
                r.shown = "fallback_notice" /\ r.shownN = r.count

C22_Witness ==
  \E s \in Ended :
    LET r == delivery[s]
    IN /\ r.kind = "completed" /\ r.cause = "other" /\ r.count = 2
       /\ r.log[1].step = "native" /\ r.log[1].outcome = "other"
       /\ r.shown = "fallback_notice" /\ r.shownN = 2

\* what the claim lets the user see in place of the placeholder: the summary,
\* a remediation notice, or a generic apology with a retry suggestion
Acceptable ==
  {"summary", "first_segment", "truncated_summary",
   "toolong_notice", "content_notice", "network_notice",
   "fallback_notice", "generic_failure"}

\* C23: when a delivery to a chat that is not send-restricted has returned,
\* the placeholder has been replaced by the summary, a remediation notice or
\* a generic apology.
C23_UserSeesSummaryOrNotice ==
  \A s \in Ended :
    LET r == delivery[s]
    IN (~r.flaggedCall /\ ~r.marked /\ ~r.endFlag) => r.shown \in Acceptable

\* C24: at most one delivery is between its first call and its return.
C24_OneDeliveryAtATime == Cardinality(Running) <= 1

\* the calls and delays of a segmented delivery of n segments, in the order
\* the claim gives: the edit of the placeholder with the first segment, the
\* other segments as new messages with a delay after each, the statistics
RECURSIVE SegmentedOrder(_)
SegmentedOrder(n) ==
  IF n <= 1 THEN <<"seg1">> ELSE SegmentedOrder(n - 1) \o <<"segN", "pace">>

\* the entries of a log before its first failed send
SentBeforeFailure(log) ==
  LET bad == {i \in 1..Len(log) : log[i].outcome # "ok"}
  IN IF bad = {} THEN Len(log) ELSE SetMin(bad) - 1

\* C27: a segmented delivery makes its calls in this order: the first
\* segment replaces the placeholder, each further segment is a new message,
\* in segment order and followed by the pacing delay, and the statistics
\* message comes last; the order holds up to the first send that fails.
C27_SegmentedOrder ==
  \A s \in Slots :
    LET r == delivery[s]
        order == SegmentedOrder(r.nSeg) \o <<"stats">>
        sent == SentBeforeFailure(r.log)
    IN (r.kind = "completed" /\ r.nSeg >= 1) =>
          /\ sent <= Len(order)
          /\ \A i \in 1..sent : r.log[i].step = order[i]
          /\ sent < Len(r.log) => r.log[sent + 1].step = order[sent + 1]
          /\ (sent = Len(r.log) /\ r.state = "inflight") =>
                /\ r.step = order[sent + 1]
                /\ r.step = "segN" =>
                      r.seg = 1 + Cardinality({i \in 1..(sent + 1) : order[i] = "segN"})
          /\ (sent = Len(r.log) /\ r.state = "pacing") => order[sent + 1] = "pace"
          /\ (sent = Len(r.log) /\ r.state = "done" /\ sent > 0) =>
                sent = Len(order) /\ r.shown = "first_segment"

C27_Witness ==
  \E s \in Ended :
    LET r == delivery[s]
    IN /\ r.kind = "completed" /\ r.nSeg = 3
       /\ [i \in 1..Len(r.log) |-> r.log[i].step]
            = <<"seg1", "segN", "pace", "segN", "pace", "stats">>
       /\ \A i \in 1..Len(r.log) : r.log[i].outcome = "ok"
       /\ r.log[3].delays = <<PacingDelay>>

(***************************************************************************)
(* Properties of the splitter                                              *)
(***************************************************************************)

RECURSIVE ConcatAll(_)
ConcatAll(segs) ==
  IF segs = <<>> THEN EmptyText ELSE Concat(Head(segs), ConcatAll(Tail(segs)))

\* where segment i starts in the text
RECURSIVE StartOf(_, _)
StartOf(segs, i) == IF i = 1 THEN 0 ELSE StartOf(segs, i - 1) + segs[i - 1].len

\* a text longer than its limit has been split
WasSplit ==
  /\ document.limit > 0
  /\ document.body.len > document.limit
  /\ segments # <<>>

\* C25: the segments of a text longer than the limit are each at most the
\* limit long, and put together in order they are the text.
C25_SegmentsWithinLimitAndComplete ==
  WasSplit =>
     /\ \A i \in 1..Len(segments) :
          segments[i].len <= document.limit /\ segments[i].len > 0
     /\ ConcatAll(segments) = document.body

C25_Witness ==
  /\ WasSplit
  /\ document.limit = SmallLimit
  /\ Len(segments) = 3
  /\ segments[1].len < SmallLimit
  /\ segments[2].len < SmallLimit
  /\ segments[2].marks # {}

\* the breaks the boundary rule names, by falling priority: paragraph, line,
\* sentence, word
BreakClasses == << <<"nl", "nl">>, <<"nl">>, <<"stop">>, <<"sp">> >>

\* where, counted from the start of the window at from, a break of the class
\* lies in the last 30% of the window: it starts beyond 70% of the limit and
\* ends inside the window
BreaksInLastPart(text, from, limit, class) ==
  {m[1] - from :
     m \in {k \in text.marks :
              /\ 10 * (k[1] - from) > 7 * limit
              /\ k[1] - from + Len(class) <= limit
              /\ OccursAt(text, class, k[1])}}

\* C26: every segment but the last ends right after a break of the highest
\* class that has a break in the last 30% of its window, and at the limit
\* when no class has one; none is shorter than 70% of the limit.
C26_BoundaryOnBestBreak ==
  WasSplit =>
     \A i \in 1..(Len(segments) - 1) :
       LET from == StartOf(segments, i)
           limit == document.limit
           length == segments[i].len
           there == {c \in 1..Len(BreakClasses) :
                       BreaksInLastPart(document.body, from, limit, BreakClasses[c]) # {}}
       IN /\ 10 * length >= 7 * limit
          /\ IF there = {} THEN length = limit
             ELSE LET best == BreakClasses[SetMin(there)]
                  IN \E at \in BreaksInLastPart(document.body, from, limit, best) :
                       length = at + Len(best)

\* a paragraph break just beyond 70% of the window is taken although a
\* space ends the window
C26_Witness ==
  /\ WasSplit
  /\ document.limit = BodyLimit
  /\ {<<2241, "nl">>, <<2242, "nl">>, <<3199, "sp">>} \subseteq document.body.marks
  /\ segments[1].len = 2243

\* a response of 9000 characters has been handed to the delivery
NineThousand == document.limit = BodyLimit /\ FullLength(document) = 9000

\* C28 as stated: a response of 9000 characters is sent as exactly 3 body
\* segments and then one statistics message.
C28_ExactlyThreeSegments ==
  NineThousand =>
     /\ Len(segments) = 3
     /\ messages = <<"segment", "segment", "segment", "stats">>

\* C28: a response of 9000 characters is sent as 3 or 4 body segments, 3
\* when every cut is at the limit, and then one statistics message.
C28_ThreeOrFourSegments ==
  NineThousand =>
     /\ Len(segments) \in {3, 4}
     /\ (\A i \in 1..2 : segments[i].len = BodyLimit) => Len(segments) = 3
     /\ Len(messages) = Len(segments) + 1
     /\ \A i \in 1..Len(messages) :
          messages[i] = IF i <= Len(segments) THEN "segment" ELSE "stats"

C28_Witness ==
  /\ NineThousand
  /\ Len(segments) = 4
  /\ messages = <<"segment", "segment", "segment", "segment", "stats">>


(***************************************************************************)
(* Properties of the /summary command                                      *)
(***************************************************************************)

\* the jobs whose completion event has been emitted
Completed == {events[i].id : i \in {k \in 1..Len(events) : events[k].type = "taskCompleted"}}

\* the metadata of the document summarizeMessages returned for a job
MetadataOf(j) == Metadata(jobData[j].messages, jobData[j].stats)

\* C31: the document of a completion event reports messagesAnalyzed equal to
\* the number of messages of the job and uniqueUsers equal to the number of
\* distinct authors of those messages.
C31_MetadataCountsTheJob ==
  \A j \in Completed :
    jobData[j] # NoData =>
      /\ MetadataOf(j).messagesAnalyzed = Len(jobData[j].messages)
      /\ MetadataOf(j).uniqueUsers = Cardinality(AuthorsOf(jobData[j].messages))

\* the fingerprint of a request for n messages under the statistics it read:
\* the chat, the count (at most the messages the chat has), the latest date
Fingerprint(n, stats) ==
  <<CommandChat,
    IF stats.total_messages < n THEN stats.total_messages ELSE n,
    stats.latest_message>>

\* the fingerprint under which the result of a job is kept
JobFingerprint(j) ==
  <<jobData[j].chatId, jobData[j].messageCount, jobData[j].stats.latest_message>>

\* the step in which a command looks its fingerprint up
LookupStep == command.pc = "stats" /\ command'.pc # "stats"

\* a request with a cached fingerprint is answered with the cached result,
\* ends there, and no job is enqueued
HitIsAnswered ==
  LookupStep =>
    LET key == Fingerprint(command.requested, statsCache')
    IN (statsCache'.total_messages > 0 /\ key \in summaryCache) =>
         /\ answer' = [kind |-> "cached", key |-> key, job |-> NoTask]
         /\ command' = IdleCommand
         /\ nextId' = nextId /\ queue' = queue /\ enqueued' = enqueued

\* the result of a job that completes is cached under the job's fingerprint
CompletionIsCached ==
  \A j \in JobIds :
    (j \in Completed' /\ j \notin Completed /\ jobData[j] # NoData) =>
      JobFingerprint(j) \in summaryCache'

\* C32: a request whose fingerprint matches a cached result is answered from
\* the cache and enqueues no job; a job that completes leaves its result under
\* its fingerprint, so a later request with that fingerprint, while the entry
\* lives, is answered from it.
C32_CacheShortCircuit == [][HitIsAnswered /\ CompletionIsCached]_vars

\* a second request is answered from the entry the first request's job left
C32_Witness ==
  /\ requests = 2
  /\ answer.kind = "cached"
  /\ \E j \in Completed : JobFingerprint(j) = answer.key
  /\ nextId = 2

\* the job whose outcome event is emitted, and handled, in this step
EventOf(j) ==
  /\ Len(events') = Len(events) + 1
  /\ events'[Len(events')].id = j

\* C38: whenever the outcome event of a job the command enqueued is handled,
\* the job's anchor entry is stored and has not expired.
C38_AnchorPresentAtEvent ==
  [][\A j \in JobIds :
       (EventOf(j) /\ jobData[j] # NoData) => anchors[j] = "stored"]_vars

(***************************************************************************)
(* Properties of the send-restricted flag                                  *)
(***************************************************************************)

\* the flag of a chat is cleared in this step
FlagCleared(c) == restricted[c] > 0 /\ restricted'[c] = 0

\* C39: a flag that is set is cleared by its expiry only: the step that
\* clears it is no cache clearing and no step of a delivery, and it clears
\* no other chat's flag.
C39_FlagClearedByExpiryOnly ==
  [][\A c \in Chats :
       FlagCleared(c) =>
         /\ flushes' = flushes
         /\ UNCHANGED <<delivery, dCount>>
         /\ \A d \in Chats \ {c} : restricted'[d] = restricted[d]]_vars

(***************************************************************************)
(* Properties of the Markdown utilities                                    *)
(***************************************************************************)

\* the characters escapeMarkdown escapes
Reserved == {"\\", "*", "_", Tick, "["}

CharsOf(s) == {s[i] : i \in 1..Len(s)}

C34_RepairLeavesEscapedText ==
  markdown.op = "repair" => markdown.output = markdown.escaped

\* pattern occurs in s
Occurs(s, pattern) ==
  \E i \in 1..Len(s) - Len(pattern) + 1 : SubSeq(s, i, i + Len(pattern) - 1) = pattern

\* s without the first occurrence of each of the titles, taken in order
RECURSIVE WithoutTitles(_, _, _)
WithoutTitles(s, titles, k) ==
  IF k > Len(titles) THEN s
  ELSE WithoutTitles(ReplaceFirst(s, EscapedTitle(titles[k]), <<>>), titles, k + 1)

\* C35: the output of smartEscapeMarkdown has every title of the input, still
\* wrapped in stars and with only its underscores escaped, and outside the
\* titles no star, underscore, backtick or opening bracket without a backslash
\* before it.
C35_TitlesKeptRestEscaped ==
  markdown.op = "smart" =>
    LET titles == TitlesFrom(markdown.input, 1)
        rest == WithoutTitles(markdown.output, titles, 1)
    IN /\ \A k \in 1..Len(titles) : Occurs(markdown.output, EscapedTitle(titles[k]))
       /\ \A c \in {"*", "_", Tick, "["} : Unescaped(rest, c) = {}

(***************************************************************************)
(* Properties of the middleware                                            *)
(***************************************************************************)
\* C36: in every period shorter than one minute rateLimiter passes at most
\* RATE_LIMIT updates of the user on (the updates beyond that are answered
\* with the too-frequent notice instead)
C36_AtMostTenInAnyMinute ==
  \A i, j \in 1..Len(passedAt) :
    (i <= j /\ passedAt[j] - passedAt[i] < TimeWindow) => j - i + 1 <= RateLimit

\* C37 as stated: duplicateGuard passes an update id on at most once, whatever
\* updates arrive and whenever the cleanup timer fires
C37_PassedAtMostOnce == \A id \in FollowedIds : passes[id] <= 1

\* C37: duplicateGuard passes an update id on again only after the cleanup
\* timer has dropped its record: once, and once more per drop
C37_PassedOncePerRecord == \A id \in FollowedIds : passes[id] <= 1 + drops[id]

\* an id whose record was dropped came again and was passed on a second time
C37_Witness == \E id \in FollowedIds : passes[id] = 2 /\ drops[id] = 1

(***************************************************************************)
(* Properties of single-message delivery                                   *)
(***************************************************************************)
\* how often the character c is in s
CountOf(s, c) == Cardinality({i \in 1..Len(s) : s[i] = c})

\* C40: whichever representation sendSingleSummary sends, it has the heading
\* once and the statistics once, like the native one, and the letters of the
\* summary as the native one has them
C40_SameContent ==
  markdown.op \in {"escaped", "safe", "plain"} =>
    /\ \A c \in {HeaderIcon, HeaderWord, StatsIcon, StatsWord, StatsLines,
                 CooldownNotice} :
         CountOf(markdown.output, c) = CountOf(markdown.escaped, c)
    /\ CountOf(markdown.output, "a") <= CountOf(markdown.escaped, "a")
    /\ CountOf(markdown.escaped, "a") > 0 => CountOf(markdown.output, "a") > 0

====
